---------------------------- MODULE Spec2Model ----------------------------
(***************************************************************************)
(* Model of the exclusive landscape display scheduler of ImageViewer       *)
(* (src/src/image_viewer.py): the landscape lock, its preemption and       *)
(* timeout, the landscape queue, the per-slot rotation timers and the      *)
(* portrait <-> landscape layout transition.                               *)
(*                                                                         *)
(* Time is discrete.  One tick is the period of lock_timeout_timer         *)
(* (1000 ms).  A timestamp of the program (landscape_lock_time,            *)
(* last_preemption_time) is stored as its age, time.time() - timestamp, in *)
(* ticks; a QTimer is stored as its remaining ticks, None when it is not   *)
(* active.  A delay given in ms is truncated to whole ticks, so a delay    *)
(* shorter than one tick elapses within the current tick.  Time advances   *)
(* only when nothing is due; what is due in the same tick runs in any      *)
(* order (one event loop, one handler at a time, each handler atomic).     *)
(*                                                                         *)
(* A handler is an operator from a program state (a record with one field  *)
(* per attribute of ImageViewer) to the set of program states it can       *)
(* return with, one per outcome of its random draws.                       *)
(***************************************************************************)
EXTENDS Integers, Sequences, FiniteSets, TLC

\* ------------------------------------------------------------ bounds
NumPanes == 2           \* config['image_count'] (2..4)
NumPortrait == 2        \* portrait images of the catalog
NumLandscape == 2       \* landscape images of the largest catalog
IntervalSpread == 0     \* ticks above the minimum a random interval may take
MaxClicks == 1          \* user actions that pin, pause or enable

\* ------------------------------------------------- program constants
lock_timeout_interval == 1000     \* lock_timeout_timer.start(1000)
landscape_lock_timeout == 15000
preemption_cooldown == 5000
preview_stage_duration == 2000
cooldown_duration == 3000
queue_capacity == 5               \* len(self.landscape_queue) < 5
portrait_min_ms == 3000           \* "3-5 seconds": (3000, 5000)
portrait_max_ms == 5000
landscape_min_ms == 2000          \* "2-4 seconds": (2000, 4000)
landscape_max_ms == 4000
first_timer_interval == 2000      \* self.timers[0].start(2000)
min_remaining == 1000             \* max(remaining_time, 1000)
trigger_delay == 500              \* QTimer.singleShot(500, ...)
trigger_interval == 100           \* self.timers[slot_index].start(100)
show_delay == 100                 \* QTimer.singleShot(100, self.start)

TickMs == lock_timeout_interval
Ticks(ms) == ms \div TickMs
\* (time.time() - t) * 1000 for a timestamp t stored as its age in ticks
Elapsed(age) == age * TickMs

Max(a, b) == IF a >= b THEN a ELSE b
Min(a, b) == IF a <= b THEN a ELSE b

None == -1
Panes == 0 .. (NumPanes - 1)
Images == 1 .. (NumPortrait + NumLandscape)
NoImage == 0                      \* the empty path ""

\* categorize_images / is_landscape_image / is_portrait_image: the catalog
\* lists the portrait images first
is_landscape_image(img) == img > NumPortrait
is_portrait_image(img) == img >= 1 /\ img <= NumPortrait
\* self.favorites_list as loaded from the settings: one portrait and one
\* landscape favorite (the dedicated slot needs more than one)
favorites_list == {1, NumPortrait + 1}

\* get_random_portrait_interval / get_random_landscape_interval, in ticks
PortraitIntervals ==
    Ticks(portrait_min_ms) ..
        Min(Ticks(portrait_max_ms), Ticks(portrait_min_ms) + IntervalSpread)
LandscapeIntervals ==
    Ticks(landscape_min_ms) ..
        Min(Ticks(landscape_max_ms), Ticks(landscape_min_ms) + IntervalSpread)

\* Ages saturate one tick above every threshold they are compared with.
LockAgeCap == Ticks(landscape_lock_timeout) + 1
PreemptAgeCap == Ticks(preemption_cooldown)

NoTimer == [slot |-> None, rem |-> None]
NoTask == [image_path |-> NoImage, rem |-> None]

VARIABLES
    image_files,                \* self.image_files, the catalog (never changes)
    startup,                    \* "constructed" | "started" | "running"
    start_pending,              \* showEvent's QTimer.singleShot(100, self.start)
    landscape_lock,             \* holder slot or None
    landscape_lock_time,        \* age of the acquisition, None when no lock
    landscape_lock_stage,       \* "None" | "preview" | "playing"
    landscape_queue,
    last_landscape_slot,
    force_release_timer,        \* [slot, rem] or NoTimer
    last_preemption_time,       \* age of the last preemption (saturating)
    acquiring_lock,             \* self._acquiring_lock
    pending_landscape_tasks,    \* slot -> [image_path, rem] or NoTask
    active_takeover_timers,     \* slot -> active QTimers of _schedule_landscape_switch
    active_watchdog_timers,     \* active QTimers of _grant_lock
    queue_trigger,              \* slot -> remaining ticks of its singleShot(500)
    timers,                     \* slot -> remaining ticks or None
    current_images,
    current_image_path,         \* image_slots[i].current_image_path
    is_transitioning,           \* image_slots[i].is_transitioning
    is_pinned,                  \* image_slots[i].is_pinned
    landscape_pinned,           \* landscape_slot.is_pinned
    landscape_image,            \* landscape_slot.current_image_path
    is_paused,
    dedicated_slot_enabled,
    current_layout_mode,        \* "portrait" | "landscape"
    transition_in_progress,
    portrait_transition,        \* "idle" | "fade_out" | "fade_in"
    landscape_timer,
    mode_switch_cooldown,
    portrait_timer_states,
    landscape_source_slot_index,
    lock_timeout_timer,         \* remaining ticks of the periodic check
    log,                        \* the lock calls of the last handler
    takeover_view,              \* what the slots displayed at the last takeover
    clicks                      \* user actions so far

vars == << image_files, startup, start_pending, landscape_lock, landscape_lock_time,
           landscape_lock_stage, landscape_queue, last_landscape_slot,
           force_release_timer, last_preemption_time, acquiring_lock,
           pending_landscape_tasks, active_takeover_timers,
           active_watchdog_timers, queue_trigger, timers, current_images,
           current_image_path, is_transitioning, is_pinned, landscape_pinned,
           landscape_image, is_paused, dedicated_slot_enabled,
           current_layout_mode, transition_in_progress, portrait_transition,
           landscape_timer, mode_switch_cooldown, portrait_timer_states,
           landscape_source_slot_index, lock_timeout_timer, log,
           takeover_view, clicks >>

\* The program state as a record, and its write-back.
Self ==
    [ image_files |-> image_files, startup |-> startup, start_pending |-> start_pending,
      landscape_lock |-> landscape_lock,
      landscape_lock_time |-> landscape_lock_time,
      landscape_lock_stage |-> landscape_lock_stage,
      landscape_queue |-> landscape_queue,
      last_landscape_slot |-> last_landscape_slot,
      force_release_timer |-> force_release_timer,
      last_preemption_time |-> last_preemption_time,
      acquiring_lock |-> acquiring_lock,
      pending_landscape_tasks |-> pending_landscape_tasks,
      active_takeover_timers |-> active_takeover_timers,
      active_watchdog_timers |-> active_watchdog_timers,
      queue_trigger |-> queue_trigger,
      timers |-> timers, current_images |-> current_images,
      current_image_path |-> current_image_path,
      is_transitioning |-> is_transitioning, is_pinned |-> is_pinned,
      landscape_pinned |-> landscape_pinned,
      landscape_image |-> landscape_image,
      is_paused |-> is_paused,
      dedicated_slot_enabled |-> dedicated_slot_enabled,
      current_layout_mode |-> current_layout_mode,
      transition_in_progress |-> transition_in_progress,
      portrait_transition |-> portrait_transition,
      landscape_timer |-> landscape_timer,
      mode_switch_cooldown |-> mode_switch_cooldown,
      portrait_timer_states |-> portrait_timer_states,
      landscape_source_slot_index |-> landscape_source_slot_index,
      lock_timeout_timer |-> lock_timeout_timer,
      takeover_view |-> takeover_view,
      log |-> << >> ]

Commit(s) ==
    /\ image_files' = s.image_files
    /\ startup' = s.startup
    /\ start_pending' = s.start_pending
    /\ landscape_lock' = s.landscape_lock
    /\ landscape_lock_time' = s.landscape_lock_time
    /\ landscape_lock_stage' = s.landscape_lock_stage
    /\ landscape_queue' = s.landscape_queue
    /\ last_landscape_slot' = s.last_landscape_slot
    /\ force_release_timer' = s.force_release_timer
    /\ last_preemption_time' = s.last_preemption_time
    /\ acquiring_lock' = s.acquiring_lock
    /\ pending_landscape_tasks' = s.pending_landscape_tasks
    /\ active_takeover_timers' = s.active_takeover_timers
    /\ active_watchdog_timers' = s.active_watchdog_timers
    /\ queue_trigger' = s.queue_trigger
    /\ timers' = s.timers
    /\ current_images' = s.current_images
    /\ current_image_path' = s.current_image_path
    /\ is_transitioning' = s.is_transitioning
    /\ is_pinned' = s.is_pinned
    /\ landscape_pinned' = s.landscape_pinned
    /\ landscape_image' = s.landscape_image
    /\ is_paused' = s.is_paused
    /\ dedicated_slot_enabled' = s.dedicated_slot_enabled
    /\ current_layout_mode' = s.current_layout_mode
    /\ transition_in_progress' = s.transition_in_progress
    /\ portrait_transition' = s.portrait_transition
    /\ landscape_timer' = s.landscape_timer
    /\ mode_switch_cooldown' = s.mode_switch_cooldown
    /\ portrait_timer_states' = s.portrait_timer_states
    /\ landscape_source_slot_index' = s.landscape_source_slot_index
    /\ lock_timeout_timer' = s.lock_timeout_timer
    /\ log' = s.log
    /\ takeover_view' = s.takeover_view


\* ------------------------------------------------------------ helpers
\* UNION of F over the outcomes in S
Bind(S, F(_)) == UNION { F(x) : x \in S }

\* The state without its log: what a log entry records before and after a call.
Strip(s) == [s EXCEPT !.log = << >>]
Logged(s, entry) == [s EXCEPT !.log = Append(s.log, entry)]

\* The images some slot is recorded to show (self.current_images)
Shown(s) == { s.current_images[i] : i \in Panes }

\* QTimer.start(ms) on a slot timer
StartTimer(s, index, ticks) == [s EXCEPT !.timers[index] = ticks]
StopTimer(s, index) == [s EXCEPT !.timers[index] = None]
\* timers[index].start(get_random_portrait_interval())
start_timer(s, index) == { StartTimer(s, index, iv) : iv \in PortraitIntervals }

\* ImageSlot.show_image: dropped while the slot is transitioning; an initial
\* show is not animated.  (The pixmap is taken to load.)
show_image(s, index, image_path, initial) ==
    IF s.is_transitioning[index] THEN s
    ELSE [s EXCEPT !.current_image_path[index] = image_path,
                   !.is_transitioning[index] = ~initial]

\* get_random_portrait_image(exclude_current): the images it may return
get_random_portrait_image(s, exclude_current) ==
    { img \in s.image_files :
        is_portrait_image(img) /\ img \notin exclude_current }

\* ----------------------------------------------------- lock manager
\* _cancel_pending_task that leaves the task in place
cancel_pending_task_noop(s, slot_index) == s

\* The timer of the slot's task is stopped when it is active (a task whose
\* timer has expired is only forgotten), and the task is deleted.
cancel_pending_task(s, slot_index) ==
    [s EXCEPT !.active_takeover_timers[slot_index] =
                  IF s.pending_landscape_tasks[slot_index].rem # None
                  THEN @ - 1 ELSE @,
              !.pending_landscape_tasks[slot_index] = NoTask]

schedule_landscape_switch(s, slot_index, image_path) ==
    LET s1 == cancel_pending_task(s, slot_index)
    IN [s1 EXCEPT !.pending_landscape_tasks[slot_index] =
                      [image_path |-> image_path,
                       rem |-> Ticks(preview_stage_duration)],
                  !.active_takeover_timers[slot_index] = @ + 1]

\* _grant_lock that does not record the slot as the last holder
grant_lock_forgets_last(s, slot_index) ==
    [s EXCEPT !.landscape_lock = slot_index,
              !.landscape_lock_time = 0,
              !.landscape_lock_stage = "preview",
              !.force_release_timer =
                  [slot |-> slot_index, rem |-> Ticks(landscape_lock_timeout)],
              !.active_watchdog_timers =
                  (IF s.force_release_timer.rem # None THEN @ - 1 ELSE @) + 1]

\* _grant_lock that arms the new force-release timer and leaves the previous
\* one running
grant_lock_stacks_watchdog(s, slot_index) ==
    [s EXCEPT !.landscape_lock = slot_index,
              !.landscape_lock_time = 0,
              !.landscape_lock_stage = "preview",
              !.last_landscape_slot = slot_index,
              !.force_release_timer =
                  [slot |-> slot_index, rem |-> Ticks(landscape_lock_timeout)],
              !.active_watchdog_timers = @ + 1]

\* _grant_lock that marks the lock as playing at once
grant_lock_playing(s, slot_index) ==
    [s EXCEPT !.landscape_lock = slot_index,
              !.landscape_lock_time = 0,
              !.landscape_lock_stage = "playing",
              !.last_landscape_slot = slot_index,
              !.force_release_timer =
                  [slot |-> slot_index, rem |-> Ticks(landscape_lock_timeout)],
              !.active_watchdog_timers =
                  (IF s.force_release_timer.rem # None THEN @ - 1 ELSE @) + 1]

grant_lock(s, slot_index) ==
    \* a running force-release timer is stopped and replaced
    [s EXCEPT !.landscape_lock = slot_index,
              !.landscape_lock_time = 0,
              !.landscape_lock_stage = "preview",
              !.last_landscape_slot = slot_index,
              !.force_release_timer =
                  [slot |-> slot_index, rem |-> Ticks(landscape_lock_timeout)],
              !.active_watchdog_timers =
                  (IF s.force_release_timer.rem # None THEN @ - 1 ELSE @) + 1]

\* _can_preempt with the preview window closed one comparison late (> for >=)
can_preempt_inclusive(s, slot_index) ==
    IF ~(slot_index = 0 /\ s.dedicated_slot_enabled) THEN FALSE
    ELSE IF Elapsed(s.last_preemption_time) < preemption_cooldown THEN FALSE
    ELSE IF s.landscape_lock = 0 THEN FALSE
    ELSE IF s.landscape_lock_stage # "preview" THEN FALSE
    ELSE IF Elapsed(s.landscape_lock_time) > preview_stage_duration THEN FALSE
    ELSE TRUE

can_preempt(s, slot_index) ==
    IF ~(slot_index = 0 /\ s.dedicated_slot_enabled) THEN FALSE
    ELSE IF Elapsed(s.last_preemption_time) < preemption_cooldown THEN FALSE
    ELSE IF s.landscape_lock = 0 THEN FALSE
    ELSE IF s.landscape_lock_stage # "preview" THEN FALSE
    ELSE IF Elapsed(s.landscape_lock_time) >= preview_stage_duration THEN FALSE
    ELSE TRUE

\* force_slot_to_portrait that restarts the slot's timer instead of stopping it
force_slot_to_portrait_restarts(s, slot_index) ==
    LET s1 == cancel_pending_task(s, slot_index)
        imgs == get_random_portrait_image(s1, Shown(s1))
    IN IF imgs = {} THEN {s1}
       ELSE Bind({ show_image([s1 EXCEPT !.current_images[slot_index] = img],
                              slot_index, img, FALSE) : img \in imgs },
                 LAMBDA s2 : start_timer(s2, slot_index))

force_slot_to_portrait(s, slot_index) ==
    LET s1 == cancel_pending_task(s, slot_index)
        imgs == get_random_portrait_image(s1, Shown(s1))
    IN IF imgs = {} THEN {s1}
       ELSE { StopTimer(
                show_image([s1 EXCEPT !.current_images[slot_index] = img],
                           slot_index, img, FALSE),
                slot_index) : img \in imgs }

preempt_lock(s, slot_index) ==
    LET preempted_slot == s.landscape_lock
        after(s1) ==
            grant_lock(
              cancel_pending_task(
                [s1 EXCEPT !.last_preemption_time = 0], preempted_slot),
              slot_index)
    IN { after(s1) : s1 \in force_slot_to_portrait(s, preempted_slot) }

\* acquire_body that tests the basic conditions only when the lock is held
acquire_body_checks_late(s, slot_index, priority) ==
    IF s.landscape_lock = None
    THEN {[s |-> grant_lock(s, slot_index), ret |-> TRUE, kind |-> "grant"]}
    ELSE IF \/ s.current_layout_mode # "portrait"
            \/ s.transition_in_progress
            \/ slot_index = s.last_landscape_slot
    THEN {[s |-> s, ret |-> FALSE, kind |-> "basic"]}
    ELSE IF priority /\ can_preempt(s, slot_index)
    THEN { [s |-> s1, ret |-> TRUE, kind |-> "preempt"] :
             s1 \in preempt_lock(s, slot_index) }
    ELSE {[s |-> s, ret |-> FALSE, kind |-> "held"]}

\* acquire_body that grants to any slot but the last holder
acquire_body_unguarded(s, slot_index, priority) ==
    IF slot_index = s.last_landscape_slot
    THEN {[s |-> s, ret |-> FALSE, kind |-> "basic"]}
    ELSE {[s |-> grant_lock(s, slot_index), ret |-> TRUE, kind |-> "grant"]}

\* acquire_body without the test of landscape_lock: a free lock is assumed
acquire_body_grants_held(s, slot_index, priority) ==
    IF \/ s.current_layout_mode # "portrait"
       \/ s.transition_in_progress
       \/ slot_index = s.last_landscape_slot
    THEN {[s |-> s, ret |-> FALSE, kind |-> "basic"]}
    ELSE {[s |-> grant_lock(s, slot_index), ret |-> TRUE, kind |-> "grant"]}

\* The outcomes [s, ret, kind] of the body of acquire_landscape_lock (its try block)
acquire_body(s, slot_index, priority) ==
    IF \/ s.current_layout_mode # "portrait"
       \/ s.transition_in_progress
       \/ slot_index = s.last_landscape_slot
    THEN {[s |-> s, ret |-> FALSE, kind |-> "basic"]}
    ELSE IF s.landscape_lock = None
    THEN {[s |-> grant_lock(s, slot_index), ret |-> TRUE, kind |-> "grant"]}
    ELSE IF priority /\ can_preempt(s, slot_index)
    THEN { [s |-> s1, ret |-> TRUE, kind |-> "preempt"] :
             s1 \in preempt_lock(s, slot_index) }
    ELSE {[s |-> s, ret |-> FALSE, kind |-> "held"]}

\* acquire_landscape_lock that clears the guard only when it grants: a denial
\* returns with the guard still set
acquire_landscape_lock_keeps_guard(s, slot_index, priority) ==
    LET entry(r, post) ==
            [op |-> "acquire", slot |-> slot_index, priority |-> priority,
             ret |-> r.ret, kind |-> r.kind,
             pre |-> Strip(s), post |-> Strip(post)]
    IN IF s.acquiring_lock
       THEN {[s |-> Logged(s, entry([ret |-> FALSE, kind |-> "busy"], s)),
              ret |-> FALSE]}
       ELSE { LET post == [r.s EXCEPT !.acquiring_lock = ~r.ret]
              IN [s |-> Logged(post, entry(r, post)), ret |-> r.ret] :
                r \in acquire_body([s EXCEPT !.acquiring_lock = TRUE],
                                   slot_index, priority) }

\* acquire_landscape_lock: the outcomes [s, ret]; each call is logged with the
\* state it found and the state it returned with
acquire_landscape_lock(s, slot_index, priority) ==
    LET entry(r, post) ==
            [op |-> "acquire", slot |-> slot_index, priority |-> priority,
             ret |-> r.ret, kind |-> r.kind,
             pre |-> Strip(s), post |-> Strip(post)]
    IN IF s.acquiring_lock
       THEN {[s |-> Logged(s, entry([ret |-> FALSE, kind |-> "busy"], s)),
              ret |-> FALSE]}
       ELSE { LET post == [r.s EXCEPT !.acquiring_lock = FALSE]   \* finally
              IN [s |-> Logged(post, entry(r, post)), ret |-> r.ret] :
                r \in acquire_body([s EXCEPT !.acquiring_lock = TRUE],
                                   slot_index, priority) }

can_slot_use_global_queue(s, slot_index) ==
    IF slot_index = s.last_landscape_slot THEN FALSE
    ELSE IF slot_index = 0 /\ s.dedicated_slot_enabled THEN FALSE
    ELSE TRUE

\* process_landscape_queue that triggers the first unpinned slot, whether or
\* not it may use the queue
process_landscape_queue_any_slot(s) ==
    IF s.landscape_queue = << >> \/ s.landscape_lock # None THEN s
    ELSE LET ok == { i \in Panes : ~s.is_pinned[i] }
         IN IF ok = {} THEN s
            ELSE LET first == CHOOSE i \in ok : \A j \in ok : i <= j
                 IN [s EXCEPT !.queue_trigger[first] = Ticks(trigger_delay)]

process_landscape_queue(s) ==
    IF s.landscape_queue = << >> \/ s.landscape_lock # None THEN s
    ELSE LET ok == { i \in Panes :
                       can_slot_use_global_queue(s, i) /\ ~s.is_pinned[i] }
         IN IF ok = {} THEN s
            ELSE LET first == CHOOSE i \in ok : \A j \in ok : i <= j   \* break
                 IN [s EXCEPT !.queue_trigger[first] = Ticks(trigger_delay)]

\* release_body that forgets to clear landscape_lock_stage
release_keeps_stage(s, expected_holder) ==
    IF expected_holder # None /\ s.landscape_lock # expected_holder
    THEN [s |-> s, ret |-> FALSE]
    ELSE [s |-> process_landscape_queue(
                  [s EXCEPT !.force_release_timer = NoTimer,
                            !.active_watchdog_timers =
                                IF s.force_release_timer.rem # None
                                THEN @ - 1 ELSE @,
                            !.landscape_lock = None,
                            !.landscape_lock_time = None]),
          ret |-> TRUE]

\* release_body without the test of expected_holder
release_unconditional(s, expected_holder) ==
    [s |-> process_landscape_queue(
             [s EXCEPT !.force_release_timer = NoTimer,
                       !.active_watchdog_timers =
                           IF s.force_release_timer.rem # None
                           THEN @ - 1 ELSE @,
                       !.landscape_lock = None,
                       !.landscape_lock_time = None,
                       !.landscape_lock_stage = "None"]),
     ret |-> TRUE]

\* The outcome [s, ret] of the body of release_landscape_lock
release_body(s, expected_holder) ==
    IF expected_holder # None /\ s.landscape_lock # expected_holder
    THEN [s |-> s, ret |-> FALSE]
    ELSE [s |-> process_landscape_queue(
                  [s EXCEPT !.force_release_timer = NoTimer,
                            !.active_watchdog_timers =
                                IF s.force_release_timer.rem # None
                                THEN @ - 1 ELSE @,
                            !.landscape_lock = None,
                            !.landscape_lock_time = None,
                            !.landscape_lock_stage = "None"]),
          ret |-> TRUE]

\* release_landscape_lock(expected_holder): [s, ret]; the call is logged with
\* the state it found and the state it returned with
release_landscape_lock(s, expected_holder) ==
    LET r == release_body(s, expected_holder)
        entry == [op |-> "release", slot |-> expected_holder,
                  priority |-> FALSE, ret |-> r.ret,
                  kind |-> IF r.ret THEN "released" ELSE "mismatch",
                  pre |-> Strip(s), post |-> Strip(r.s)]
    IN [s |-> Logged(r.s, entry), ret |-> r.ret]

\* force_release_lock that does not restart the timer of the slot
force_release_body_no_restart(s, original_holder) ==
    IF s.landscape_lock # original_holder THEN {s}
    ELSE { [s1 EXCEPT !.force_release_timer = NoTimer,
                      !.active_watchdog_timers =
                          IF s1.force_release_timer.rem # None
                          THEN @ - 1 ELSE @,
                      !.landscape_lock = None,
                      !.landscape_lock_time = None,
                      !.landscape_lock_stage = "None"] :
             s1 \in force_slot_to_portrait(s, original_holder) }

\* force_release_body that forces the slot to a portrait image and keeps the
\* lock
force_release_body_keeps_lock(s, original_holder) ==
    IF s.landscape_lock # original_holder THEN {s}
    ELSE force_slot_to_portrait(s, original_holder)

\* The outcomes of the body of force_release_lock
force_release_body(s, original_holder) ==
    IF s.landscape_lock # original_holder THEN {s}
    ELSE LET restart(s1) ==
                 IF ~s1.is_pinned[original_holder]
                 THEN start_timer(s1, original_holder) ELSE {s1}
             clear(s1) ==
                 \* the QTimer is dropped, not stopped: it goes with its
                 \* last reference
                 [s1 EXCEPT !.force_release_timer = NoTimer,
                            !.active_watchdog_timers =
                                IF s1.force_release_timer.rem # None
                                THEN @ - 1 ELSE @,
                            !.landscape_lock = None,
                            !.landscape_lock_time = None,
                            !.landscape_lock_stage = "None"]
         IN { clear(s2) :
                s2 \in Bind(force_slot_to_portrait(s, original_holder), restart) }

\* force_release_lock(original_holder); the call is logged with the state it
\* found and the state it returned with
force_release_lock(s, original_holder) ==
    { Logged(post, [op |-> "force_release", slot |-> original_holder,
                    priority |-> FALSE,
                    ret |-> s.landscape_lock = original_holder,
                    kind |-> "callback",
                    pre |-> Strip(s), post |-> Strip(post)]) :
        post \in force_release_body(s, original_holder) }

check_lock_timeout(s) ==
    IF s.landscape_lock # None /\ s.landscape_lock_time # None
       /\ Elapsed(s.landscape_lock_time) > landscape_lock_timeout
    THEN force_release_lock(s, s.landscape_lock)
    ELSE {s}


\* ------------------------------------------------ selection policy
\* The granted path of change_single_image / display_initial_image: show the
\* image in the slot, schedule the switch, stop the slot's timer.
begin_preview(s, index, image_path, initial) ==
    StopTimer(
      schedule_landscape_switch(
        show_image(s, index, image_path, initial), index, image_path),
      index)

\* The end of change_single_image: show the final choice, reset the timer.
\* show_final that stops the timer of the slot and does not start it again
show_final_timer_stopped(s, index, new_image) ==
    { StopTimer(IF new_image # NoImage
                THEN show_image(s, index, new_image, FALSE) ELSE s, index) }

show_final(s, index, new_image) ==
    start_timer(
      StopTimer(IF new_image # NoImage
                THEN show_image(s, index, new_image, FALSE) ELSE s, index),
      index)

\* lines 965-980 when no candidate is left (new_image is None): nothing is
\* shown and the timer is restarted; the call is logged
no_candidate(s, index) ==
    { Logged(post, [op |-> "no_candidate", slot |-> index,
                    priority |-> FALSE, ret |-> FALSE, kind |-> "empty",
                    pre |-> Strip(s), post |-> Strip(post)]) :
        post \in show_final(s, index, NoImage) }

\* random.choice(available) with the fallback pool of change_single_image
Available(s, index, pool) ==
    LET strict == { img \in pool : img \notin Shown(s) }
    IN IF strict # {} THEN strict
       ELSE { img \in pool : img # s.current_images[index] }

\* change_single_image, dedicated favorites slot (index 0)
change_dedicated(s, index) ==
    LET available == Available(s, index, favorites_list)
        denied(s1, new_image) ==
            LET portrait_imgs == { img \in available : is_portrait_image(img) }
            IN IF portrait_imgs = {} THEN show_final(s1, index, new_image)
               ELSE Bind(portrait_imgs,
                      LAMBDA img :
                        show_final([s1 EXCEPT !.current_images[index] = img],
                                   index, img))
        chosen(new_image) ==
            LET s1 == [s EXCEPT !.current_images[index] = new_image]
            IN IF is_landscape_image(new_image)
               THEN Bind(acquire_landscape_lock(s1, 0, TRUE),
                      LAMBDA r :
                        IF r.ret
                        THEN {begin_preview(r.s, index, new_image, FALSE)}
                        ELSE denied(r.s, new_image))
               ELSE show_final(s1, index, new_image)
    IN IF available = {} THEN no_candidate(s, index)
       ELSE Bind(available, chosen)

\* change_fresh that drops a denied landscape image instead of queueing it
change_fresh_drops_denied(s, index) ==
    LET available == Available(s, index, s.image_files)
        denied(s1, new_image) ==
            LET portrait_imgs == get_random_portrait_image(s1, Shown(s1))
            IN IF portrait_imgs = {} THEN show_final(s1, index, new_image)
               ELSE Bind(portrait_imgs,
                      LAMBDA img :
                        show_final([s1 EXCEPT !.current_images[index] = img],
                                   index, img))
        chosen(new_image) ==
            LET s1 == [s EXCEPT !.current_images[index] = new_image]
            IN IF is_landscape_image(new_image)
               THEN Bind(acquire_landscape_lock(s1, index, FALSE),
                      LAMBDA r :
                        IF r.ret
                        THEN {begin_preview(r.s, index, new_image, FALSE)}
                        ELSE denied(r.s, new_image))
               ELSE show_final(s1, index, new_image)
    IN IF available = {} THEN no_candidate(s, index)
       ELSE Bind(available, chosen)

\* change_fresh that queues a denied landscape image whatever the length of
\* the queue
change_fresh_unbounded_queue(s, index) ==
    LET available == Available(s, index, s.image_files)
        denied(s1, new_image) ==
            LET s2 == [s1 EXCEPT !.landscape_queue = Append(@, new_image)]
                portrait_imgs == get_random_portrait_image(s2, Shown(s2))
            IN IF portrait_imgs = {} THEN show_final(s2, index, new_image)
               ELSE Bind(portrait_imgs,
                      LAMBDA img :
                        show_final([s2 EXCEPT !.current_images[index] = img],
                                   index, img))
        chosen(new_image) ==
            LET s1 == [s EXCEPT !.current_images[index] = new_image]
            IN IF is_landscape_image(new_image)
               THEN Bind(acquire_landscape_lock(s1, index, FALSE),
                      LAMBDA r :
                        IF r.ret
                        THEN {begin_preview(r.s, index, new_image, FALSE)}
                        ELSE denied(r.s, new_image))
               ELSE show_final(s1, index, new_image)
    IN IF available = {} THEN no_candidate(s, index)
       ELSE Bind(available, chosen)

\* change_single_image, step 2 and 3: a fresh random image
change_fresh(s, index) ==
    LET available == Available(s, index, s.image_files)
        denied(s1, new_image) ==
            LET s2 == IF Len(s1.landscape_queue) < queue_capacity
                      THEN [s1 EXCEPT !.landscape_queue = Append(@, new_image)]
                      ELSE s1
                portrait_imgs == get_random_portrait_image(s2, Shown(s2))
            IN IF portrait_imgs = {} THEN show_final(s2, index, new_image)
               ELSE Bind(portrait_imgs,
                      LAMBDA img :
                        show_final([s2 EXCEPT !.current_images[index] = img],
                                   index, img))
        chosen(new_image) ==
            LET s1 == [s EXCEPT !.current_images[index] = new_image]
            IN IF is_landscape_image(new_image)
               THEN Bind(acquire_landscape_lock(s1, index, FALSE),
                      LAMBDA r :
                        IF r.ret
                        THEN {begin_preview(r.s, index, new_image, FALSE)}
                        ELSE denied(r.s, new_image))
               ELSE show_final(s1, index, new_image)
    IN IF available = {} THEN no_candidate(s, index)
       ELSE Bind(available, chosen)

\* change_normal that puts a denied head back at the end of the queue
change_normal_requeues_last(s, index) ==
    IF s.landscape_queue # << >>
    THEN LET landscape_img == Head(s.landscape_queue)
             s1 == [s EXCEPT !.landscape_queue = Tail(@)]
         IN Bind(acquire_landscape_lock(s1, index, FALSE),
              LAMBDA r :
                IF r.ret
                THEN {begin_preview(
                        [r.s EXCEPT !.current_images[index] = landscape_img],
                        index, landscape_img, FALSE)}
                ELSE change_fresh(
                       [r.s EXCEPT !.landscape_queue =
                                       Append(@, landscape_img)],
                       index))
    ELSE change_fresh(s, index)

\* change_single_image, step 1: the head of the landscape queue first
change_normal(s, index) ==
    IF s.landscape_queue # << >>
    THEN LET landscape_img == Head(s.landscape_queue)
             s1 == [s EXCEPT !.landscape_queue = Tail(@)]     \* popleft
         IN Bind(acquire_landscape_lock(s1, index, FALSE),
              LAMBDA r :
                IF r.ret
                THEN {begin_preview(
                        [r.s EXCEPT !.current_images[index] = landscape_img],
                        index, landscape_img, FALSE)}
                ELSE change_fresh(
                       [r.s EXCEPT !.landscape_queue =
                                       << landscape_img >> \o @],  \* appendleft
                       index))
    ELSE change_fresh(s, index)

\* change_single_image that selects for a pinned slot as for any other
change_single_image_ignores_pin(s, index) ==
    IF index = 0 /\ s.dedicated_slot_enabled /\ favorites_list # {}
    THEN change_dedicated(s, index)
    ELSE change_normal(s, index)

\* change_single_image; a call that finds the slot pinned is logged with the
\* state it found and the state it returned with
change_single_image(s, index) ==
    IF s.is_pinned[index]
    THEN { Logged(post, [op |-> "select", slot |-> index,
                         priority |-> FALSE, ret |-> FALSE,
                         kind |-> "pinned",
                         pre |-> Strip(s), post |-> Strip(post)]) :
             post \in start_timer(StopTimer(s, index), index) }
    ELSE IF index = 0 /\ s.dedicated_slot_enabled /\ favorites_list # {}
    THEN change_dedicated(s, index)
    ELSE change_normal(s, index)

display_initial_image(s, index, image_path) ==
    LET s0 == [s EXCEPT !.current_images[index] = image_path]
        denied(s1) ==
            LET portrait_imgs ==
                    { img \in s.image_files :
                        is_portrait_image(img) /\ img # image_path }
            IN IF portrait_imgs = {}
               THEN {show_image(s1, index, image_path, TRUE)}
               ELSE { show_image([s1 EXCEPT !.current_images[index] = img],
                                 index, img, TRUE) : img \in portrait_imgs }
    IN IF is_landscape_image(image_path)
       THEN Bind(acquire_landscape_lock(
                   s0, index, index = 0 /\ s0.dedicated_slot_enabled),
              LAMBDA r :
                IF r.ret THEN {begin_preview(r.s, index, image_path, TRUE)}
                ELSE denied(r.s))
       ELSE {show_image(s0, index, image_path, TRUE)}

\* start(): distinct random images for the slots, in slot order, then every
\* timer is started
RECURSIVE display_from(_, _, _, _)
display_from(available_images, S, i, used) ==
    IF i >= NumPanes \/ i >= Cardinality(available_images) THEN S
    ELSE Bind(available_images \ used,
           LAMBDA img :
             display_from(
               available_images,
               Bind(S, LAMBDA s : display_initial_image(s, i, img)),
               i + 1, used \cup {img}))

start(s) ==
    LET started_timers(s1) ==
            { [s1 EXCEPT !.timers =
                  [i \in Panes |->
                     IF i = 0 THEN Ticks(first_timer_interval) ELSE f[i]]] :
                f \in [Panes -> PortraitIntervals] }
    IN Bind(display_from(s.image_files, {s}, 0, {}), started_timers)


\* ---------------------------------------------- transition controller
complete_landscape_transition(s, image_path) ==
    { [s EXCEPT !.current_layout_mode = "landscape",
                !.landscape_image = image_path,
                !.landscape_timer = iv,
                !.mode_switch_cooldown = Ticks(cooldown_duration),
                !.transition_in_progress = FALSE] : iv \in LandscapeIntervals }

start_landscape_transition_animation(s, image_path, source_slot_index) ==
    complete_landscape_transition(
      show_image(s, source_slot_index, image_path, FALSE), image_path)

switch_to_landscape_mode_with_image(s, image_path, source_slot_index) ==
    IF s.transition_in_progress \/ s.current_layout_mode = "landscape" THEN {s}
    ELSE LET saved ==
                 [k \in 1 .. NumPanes |->
                    LET i == k - 1
                        active == s.timers[i] # None
                        remaining_time ==
                            IF active THEN s.timers[i] * TickMs ELSE 0
                    IN [index |-> i,
                        remaining |-> Max(remaining_time, min_remaining),
                        was_active |-> active,
                        current_image |-> s.current_images[i]]]
             \* history: the displayed image and the pin of every slot
             view == [k \in 1 .. NumPanes |->
                        [path |-> s.current_image_path[k - 1],
                         pinned |-> s.is_pinned[k - 1]]]
             s1 == [s EXCEPT !.transition_in_progress = TRUE,
                             !.landscape_source_slot_index = source_slot_index,
                             !.portrait_timer_states = saved,
                             !.timers = [i \in Panes |-> None],
                             !.takeover_view = view]
         IN start_landscape_transition_animation(s1, image_path,
                                                 source_slot_index)

\* delayed_landscape_switch that does not test the holder
delayed_landscape_switch_unowned(s, image_path, slot_index) ==
    IF s.landscape_lock_stage # "preview" THEN {s}
    ELSE IF s.current_image_path[slot_index] # image_path
    THEN {release_landscape_lock(s, slot_index).s}
    ELSE IF ~s.transition_in_progress /\ s.current_layout_mode = "portrait"
    THEN switch_to_landscape_mode_with_image(
           [s EXCEPT !.landscape_lock_stage = "playing"], image_path, slot_index)
    ELSE force_slot_to_portrait(
           release_landscape_lock(s, slot_index).s, slot_index)

\* delayed_landscape_switch that does not compare the displayed image
delayed_landscape_switch_any_image(s, image_path, slot_index) ==
    IF s.landscape_lock # slot_index THEN {s}
    ELSE IF s.landscape_lock_stage # "preview" THEN {s}
    ELSE IF ~s.transition_in_progress /\ s.current_layout_mode = "portrait"
    THEN switch_to_landscape_mode_with_image(
           [s EXCEPT !.landscape_lock_stage = "playing"], image_path, slot_index)
    ELSE force_slot_to_portrait(
           release_landscape_lock(s, slot_index).s, slot_index)

delayed_landscape_switch(s, image_path, slot_index) ==
    IF s.landscape_lock # slot_index THEN {s}
    ELSE IF s.landscape_lock_stage # "preview" THEN {s}
    ELSE IF s.current_image_path[slot_index] # image_path
    THEN {release_landscape_lock(s, slot_index).s}
    ELSE IF ~s.transition_in_progress /\ s.current_layout_mode = "portrait"
    THEN switch_to_landscape_mode_with_image(
           [s EXCEPT !.landscape_lock_stage = "playing"], image_path, slot_index)
    ELSE force_slot_to_portrait(
           release_landscape_lock(s, slot_index).s, slot_index)

\* _execute_delayed_landscape_switch that re-arms the takeover timer of the
\* slot instead of cancelling it
execute_delayed_landscape_switch_keeps_task(s, slot_index, image_path) ==
    { Logged(post, [op |-> "takeover", slot |-> slot_index,
                    priority |-> FALSE,
                    ret |-> post.current_layout_mode # s.current_layout_mode,
                    kind |-> "callback",
                    pre |-> Strip(s), post |-> Strip(post)]) :
        post \in delayed_landscape_switch(
                   [s EXCEPT !.pending_landscape_tasks[slot_index].rem = 1],
                   image_path, slot_index) }

\* _execute_delayed_landscape_switch, the callback of the takeover timer; the
\* call is logged with the state it found and the state it returned with
execute_delayed_landscape_switch(s, slot_index, image_path) ==
    { Logged(post, [op |-> "takeover", slot |-> slot_index,
                    priority |-> FALSE,
                    ret |-> post.current_layout_mode # s.current_layout_mode,
                    kind |-> "callback",
                    pre |-> Strip(s), post |-> Strip(post)]) :
        post \in delayed_landscape_switch(cancel_pending_task(s, slot_index),
                                          image_path, slot_index) }

switch_to_portrait_mode(s) ==
    IF s.transition_in_progress \/ s.current_layout_mode = "portrait" THEN s
    ELSE [s EXCEPT !.transition_in_progress = TRUE,
                   !.landscape_timer = None,
                   !.portrait_transition = "fade_out"]

\* change_landscape_image that does not look at the pin of the exclusive view
change_landscape_image_ignores_pin(s) == {switch_to_portrait_mode(s)}

change_landscape_image(s) ==
    IF s.landscape_pinned
    THEN { [s EXCEPT !.landscape_timer = iv] : iv \in LandscapeIntervals }
    ELSE {switch_to_portrait_mode(s)}

complete_portrait_transition(s) ==
    [s EXCEPT !.current_layout_mode = "portrait",
              !.portrait_transition = "fade_in"]

\* restore_timers that starts every timer with a fresh interval
restore_timers_fresh(s) ==
    { [s EXCEPT !.timers = f,
                !.portrait_timer_states = << >>,
                !.transition_in_progress = FALSE] :
        f \in [Panes -> PortraitIntervals] }

\* finalize_portrait_transition, lines 1622-1647: restore the timers
restore_timers(s) ==
    LET saved == s.portrait_timer_states
        usable == saved # << >> /\ Len(saved) = NumPanes
    IN { [s EXCEPT !.timers =
              [i \in Panes |->
                 IF usable /\ saved[i + 1].was_active
                 THEN Ticks(Max(saved[i + 1].remaining, min_remaining))
                 ELSE f[i]],
            !.portrait_timer_states = << >>,
            !.transition_in_progress = FALSE] :
          f \in [Panes -> PortraitIntervals] }

\* Variant of update_source_slot that reselects the pane next to the one
\* that played the landscape.
update_neighbour_slot(s) ==
    LET locked_slot == s.landscape_lock
        source == (s.landscape_source_slot_index + 1) % NumPanes
        restart_locked(s1) ==
            IF locked_slot # None /\ ~s1.is_pinned[locked_slot]
            THEN start_timer(s1, locked_slot) ELSE {s1}
    IN IF source >= 0 /\ source < NumPanes
       THEN IF source = locked_slot
            THEN IF ~s.is_pinned[locked_slot]
                 THEN Bind(change_single_image(s, locked_slot),
                        LAMBDA s1 : start_timer(s1, locked_slot))
                 ELSE start_timer(s, locked_slot)
            ELSE Bind(change_single_image(StopTimer(s, source), source),
                      restart_locked)
       ELSE restart_locked(s)

\* lines 1649-1687: the slot that played the landscape picks a new image
update_source_slot(s) ==
    LET locked_slot == s.landscape_lock
        source == s.landscape_source_slot_index
        restart_locked(s1) ==
            IF locked_slot # None /\ ~s1.is_pinned[locked_slot]
            THEN start_timer(s1, locked_slot) ELSE {s1}
    IN IF source >= 0 /\ source < NumPanes
       THEN IF source = locked_slot
            THEN IF ~s.is_pinned[locked_slot]
                 THEN Bind(change_single_image(s, locked_slot),
                        LAMBDA s1 : start_timer(s1, locked_slot))
                 ELSE start_timer(s, locked_slot)
            ELSE Bind(change_single_image(StopTimer(s, source), source),
                      restart_locked)
       ELSE restart_locked(s)

\* lines 1689-1696: restart every timer found inactive and not pinned
restart_inactive(s) ==
    { [s EXCEPT !.timers =
          [i \in Panes |->
             IF s.timers[i] = None /\ ~s.is_pinned[i] THEN f[i]
             ELSE s.timers[i]]] :
        f \in [Panes -> PortraitIntervals] }

\* lines 1698-1704: the cooldown, then the lock is released last
finish_transition(s) ==
    LET s1 == [s EXCEPT !.mode_switch_cooldown = Ticks(cooldown_duration),
                        !.portrait_transition = "idle"]
        s2 == IF s1.landscape_lock # None
              THEN release_landscape_lock(s1, s1.landscape_lock).s
              ELSE s1
    IN [s2 EXCEPT !.takeover_view = << >>]    \* history: the cycle is over

\* finalize_portrait_transition that releases the lock first
finalize_portrait_transition_releases_first(s) ==
    Bind(Bind(restore_timers(finish_transition(s)), update_source_slot),
         restart_inactive)

\* finalize_portrait_transition that neither restores the timers nor scans
\* for inactive ones
finalize_portrait_transition_no_timers(s) ==
    { finish_transition(s3) :
        s3 \in update_source_slot(
                 [s EXCEPT !.portrait_timer_states = << >>,
                           !.transition_in_progress = FALSE]) }

finalize_portrait_transition(s) ==
    { finish_transition(s3) :
        s3 \in Bind(Bind(restore_timers(s), update_source_slot),
                    restart_inactive) }

\* ------------------------------------------------------ user actions
pause(s) ==
    IF s.is_paused THEN s
    ELSE IF s.current_layout_mode = "portrait"
    THEN [s EXCEPT !.is_paused = TRUE, !.timers = [i \in Panes |-> None]]
    ELSE [s EXCEPT !.is_paused = TRUE, !.landscape_timer = None]

resume(s) ==
    IF ~s.is_paused THEN {s}
    ELSE IF s.current_layout_mode = "portrait"
    THEN { [s EXCEPT !.is_paused = FALSE,
                     !.timers = [i \in Panes |->
                                   IF ~s.is_pinned[i] THEN f[i]
                                   ELSE s.timers[i]]] :
             f \in [Panes -> PortraitIntervals] }
    ELSE IF ~s.landscape_pinned
    THEN { [s EXCEPT !.is_paused = FALSE, !.landscape_timer = iv] :
             iv \in LandscapeIntervals }
    ELSE {[s EXCEPT !.is_paused = FALSE]}

toggle_pin(s, slot_index) ==
    [s EXCEPT !.is_pinned[slot_index] = ~@]

toggle_pin_landscape(s) ==
    [s EXCEPT !.landscape_pinned = ~@]

enable_dedicated_slot(s) ==
    IF Cardinality(favorites_list) <= 1 THEN {s}
    ELSE change_single_image(
           StopTimer([s EXCEPT !.dedicated_slot_enabled = TRUE], 0), 0)

disable_dedicated_slot(s) ==
    [s EXCEPT !.dedicated_slot_enabled = FALSE]

\* set_favorites(favorites) as MainWindow.load_favorites calls it, then the
\* saved dedicated_slot_enabled setting overwrites the flag
set_favorites(s) ==
    IF Cardinality(favorites_list) > 1
    THEN IF ~s.dedicated_slot_enabled THEN enable_dedicated_slot(s) ELSE {s}
    ELSE IF s.dedicated_slot_enabled THEN {disable_dedicated_slot(s)}
    ELSE {s}

load_favorites(s) ==
    { [s1 EXCEPT !.dedicated_slot_enabled =
                     dedicated_enabled /\ Cardinality(favorites_list) > 1] :
        s1 \in set_favorites(s), dedicated_enabled \in BOOLEAN }

trigger_slot_update(s, slot_index) ==
    StartTimer(StopTimer(s, slot_index), slot_index, Ticks(trigger_interval))


\* ------------------------------------------------------------ actions
\* The catalog of the unrestricted program: every portrait image and one
\* landscape image.
image_files_one_landscape == { img \in Images : img <= NumPortrait + 1 }

\* ImageViewer.__init__ over the catalog files
Constructed(files) ==
    /\ image_files = files
    /\ startup = "constructed"
    /\ start_pending = None
    /\ landscape_lock = None
    /\ landscape_lock_time = None
    /\ landscape_lock_stage = "None"
    /\ landscape_queue = << >>
    /\ last_landscape_slot = None
    /\ force_release_timer = NoTimer
    /\ last_preemption_time = PreemptAgeCap      \* last_preemption_time = 0
    /\ acquiring_lock = FALSE
    /\ pending_landscape_tasks = [i \in Panes |-> NoTask]
    /\ active_takeover_timers = [i \in Panes |-> 0]
    /\ active_watchdog_timers = 0
    /\ queue_trigger = [i \in Panes |-> None]
    /\ timers = [i \in Panes |-> None]
    /\ current_images = [i \in Panes |-> NoImage]
    /\ current_image_path = [i \in Panes |-> NoImage]
    /\ is_transitioning = [i \in Panes |-> FALSE]
    /\ is_pinned = [i \in Panes |-> FALSE]
    /\ landscape_pinned = FALSE
    /\ landscape_image = NoImage
    /\ is_paused = FALSE
    /\ dedicated_slot_enabled = FALSE
    /\ current_layout_mode = "portrait"
    /\ transition_in_progress = FALSE
    /\ portrait_transition = "idle"
    /\ landscape_timer = None
    /\ mode_switch_cooldown = None
    /\ portrait_timer_states = << >>
    /\ landscape_source_slot_index = -1
    /\ lock_timeout_timer = Ticks(lock_timeout_interval)
    /\ log = << >>
    /\ takeover_view = << >>
    /\ clicks = 0

Init == Constructed(image_files_one_landscape)

\* One of the outcomes S of a handler becomes the next state.
Do(S) == \E s \in S : Commit(s)
Program(S) == Do(S) /\ UNCHANGED clicks
\* A user action that pins, pauses or enables counts against MaxClicks; the
\* action that undoes it is free.
User(S) == clicks < MaxClicks /\ Do(S) /\ clicks' = clicks + 1
Undo(S) == Do(S) /\ UNCHANGED clicks

\* MainWindow.init_ui: showFullScreen() (showEvent schedules start) and start()
Start ==
    /\ startup = "constructed"
    /\ Program(start([Self EXCEPT !.startup = "started",
                                  !.start_pending = Ticks(show_delay)]))

\* MainWindow.__init__: load_favorites() after init_ui(), before the event
\* loop runs
LoadFavorites ==
    /\ startup = "started"
    /\ Program(load_favorites([Self EXCEPT !.startup = "running"]))

\* showEvent's QTimer.singleShot(100, self.start) fires
StartDeferred ==
    /\ startup = "running"
    /\ start_pending = 0
    /\ Program(start([Self EXCEPT !.start_pending = None]))

\* timers[index] times out
TimerFires(index) ==
    /\ timers[index] = 0
    /\ Program(change_single_image(Self, index))

\* the timer of pending_landscape_tasks[slot_index] times out
TaskFires(slot_index) ==
    /\ pending_landscape_tasks[slot_index].rem = 0
    /\ Program(execute_delayed_landscape_switch(
                 Self, slot_index,
                 pending_landscape_tasks[slot_index].image_path))

\* force_release_timer times out (single shot)
WatchdogFires ==
    /\ force_release_timer.rem = 0
    /\ Program(force_release_lock(
                 [Self EXCEPT !.force_release_timer.rem = None,
                              !.active_watchdog_timers = @ - 1],
                 force_release_timer.slot))

\* lock_timeout_timer times out (every 1000 ms)
CheckTimeout ==
    /\ lock_timeout_timer = 0
    /\ Program(check_lock_timeout(
                 [Self EXCEPT !.lock_timeout_timer =
                                  Ticks(lock_timeout_interval)]))

\* landscape_timer times out (single shot)
LandscapeTimerFires ==
    /\ landscape_timer = 0
    /\ Program(change_landscape_image([Self EXCEPT !.landscape_timer = None]))

\* ImageSlot.on_transition_complete
TransitionComplete(index) ==
    /\ is_transitioning[index]
    /\ Program({[Self EXCEPT !.is_transitioning[index] = FALSE]})

\* the QTimer.singleShot(500, ...) of process_landscape_queue fires
QueueTrigger(slot_index) ==
    /\ queue_trigger[slot_index] = 0
    /\ Program({trigger_slot_update(
                  [Self EXCEPT !.queue_trigger[slot_index] = None],
                  slot_index)})

\* landscape_fade_animation.finished
CompletePortraitTransition ==
    /\ portrait_transition = "fade_out"
    /\ Program({complete_portrait_transition(Self)})

\* portrait_fade_animations.finished
FinalizePortraitTransition ==
    /\ portrait_transition = "fade_in"
    /\ Program(finalize_portrait_transition(Self))

TogglePin(slot_index) ==
    /\ startup = "running" /\ current_layout_mode = "portrait"
    /\ IF is_pinned[slot_index]
       THEN Undo({toggle_pin(Self, slot_index)})
       ELSE User({toggle_pin(Self, slot_index)})

TogglePinLandscape ==
    /\ startup = "running" /\ current_layout_mode = "landscape"
    /\ IF landscape_pinned
       THEN Undo({toggle_pin_landscape(Self)})
       ELSE User({toggle_pin_landscape(Self)})

Pause ==
    /\ startup = "running" /\ ~is_paused
    /\ User({pause(Self)})

Resume ==
    /\ startup = "running" /\ is_paused
    /\ Undo(resume(Self))

EnableDedicated ==
    /\ startup = "running" /\ ~dedicated_slot_enabled
    /\ User(enable_dedicated_slot(Self))

DisableDedicated ==
    /\ startup = "running" /\ dedicated_slot_enabled
    /\ Undo({disable_dedicated_slot(Self)})

Dec(x) == IF x = None THEN None ELSE x - 1

\* One tick of time passes: nothing is due.
Tick ==
    /\ startup = "running"
    /\ start_pending = None
    /\ portrait_transition = "idle"
    /\ force_release_timer.rem # 0
    /\ landscape_timer # 0
    /\ lock_timeout_timer # 0
    /\ \A i \in Panes : /\ timers[i] # 0
                        /\ pending_landscape_tasks[i].rem # 0
                        /\ queue_trigger[i] # 0
                        /\ ~is_transitioning[i]
    /\ Program({[Self EXCEPT
          !.timers = [i \in Panes |-> Dec(timers[i])],
          !.pending_landscape_tasks =
              [i \in Panes |-> [pending_landscape_tasks[i] EXCEPT
                                  !.rem = Dec(@)]],
          !.force_release_timer.rem = Dec(@),
          !.queue_trigger = [i \in Panes |-> Dec(queue_trigger[i])],
          !.landscape_timer = Dec(@),
          !.lock_timeout_timer = Dec(@),
          !.mode_switch_cooldown = IF @ = None \/ @ = 1 THEN None ELSE @ - 1,
          !.landscape_lock_time =
              IF @ = None THEN None ELSE Min(@ + 1, LockAgeCap),
          !.last_preemption_time = Min(@ + 1, PreemptAgeCap)]})

Next ==
    \/ Start
    \/ LoadFavorites
    \/ StartDeferred
    \/ \E i \in Panes : TimerFires(i)
    \/ \E i \in Panes : TaskFires(i)
    \/ WatchdogFires
    \/ CheckTimeout
    \/ LandscapeTimerFires
    \/ \E i \in Panes : TransitionComplete(i)
    \/ \E i \in Panes : QueueTrigger(i)
    \/ CompletePortraitTransition
    \/ FinalizePortraitTransition
    \/ \E i \in Panes : TogglePin(i)
    \/ TogglePinLandscape
    \/ Pause
    \/ Resume
    \/ EnableDedicated
    \/ DisableDedicated
    \/ Tick

Spec == Init /\ [][Next]_vars

\* release_landscape_lock(expected_holder) called by a superseded callback: the
\* caller is not, or is no longer, the holder.  ImageViewer itself tests the
\* holder before each of its calls; the contract of the operation is checked
\* under NextStale, which adds such calls in every state of the program.
StaleRelease(expected_holder) ==
    /\ startup = "running"
    /\ landscape_lock # expected_holder
    /\ Program({release_landscape_lock(Self, expected_holder).s})

NextStale ==
    \/ Next
    \/ \E expected_holder \in Panes : StaleRelease(expected_holder)

SpecStale == Init /\ [][NextStale]_vars

\* A superseded callback fires: the takeover scheduled for a pane that is not,
\* or is no longer, the holder, and the watchdog armed for such a pane.  The
\* program cancels both when the lock changes hands; NextStaleCallback adds
\* them in every state of the program.
StaleTakeover(slot_index, image_path) ==
    /\ startup = "running"
    /\ landscape_lock # slot_index
    /\ Program(execute_delayed_landscape_switch(Self, slot_index, image_path))

StaleWatchdog(original_holder) ==
    /\ startup = "running"
    /\ landscape_lock # original_holder
    /\ Program(force_release_lock(Self, original_holder))

NextStaleCallback ==
    \/ Next
    \/ \E i \in Panes : \E img \in Images : StaleTakeover(i, img)
    \/ \E i \in Panes : StaleWatchdog(i)

SpecStaleCallback == Init /\ [][NextStaleCallback]_vars

\* The user clicks the pane that holds the lock, during its preview, and pins
\* it.  Spec counts every click that pins against MaxClicks; NextPinHolder adds
\* this one click uncounted, so that a pinned holder and one more user action
\* meet.
PinHolder ==
    /\ startup = "running" /\ current_layout_mode = "portrait"
    /\ landscape_lock # None
    /\ ~is_pinned[landscape_lock]
    /\ Undo({toggle_pin(Self, landscape_lock)})

NextPinHolder ==
    \/ Next
    \/ PinHolder

SpecPinHolder == Init /\ [][NextPinHolder]_vars

\* The program over the whole catalog, with every landscape image in it.
InitAllImages == Constructed(Images)

SpecAllImages == InitAllImages /\ [][Next]_vars

\* --------------------------------------------------------- properties
\* The lock calls of the last handler, by kind
Calls(op) == { k \in DOMAIN log : log[k].op = op }

\* A pane is in an exclusive turn when it holds the lock, when its takeover is
\* scheduled (Preview), or when the layout shows its landscape (Playing).
InTurn(i) ==
    \/ landscape_lock = i
    \/ pending_landscape_tasks[i] # NoTask
    \/ current_layout_mode = "landscape" /\ landscape_source_slot_index = i

\* C1 (mutual exclusion): in every reachable state at most one pane is in an
\* exclusive turn: no two panes hold the lock, have a takeover scheduled or
\* play their landscape at the same time.
C1_MutualExclusion ==
    \A i, j \in Panes : InTurn(i) /\ InTurn(j) => i = j

\* A pane was denied the lock in the handler that just ran because another
\* pane holds it with its takeover scheduled.
C1_Witness ==
    \E k \in Calls("acquire") :
        /\ log[k].kind = "held"
        /\ landscape_lock \notin {None, log[k].slot}
        /\ pending_landscape_tasks[landscape_lock] # NoTask

\* The successful acquisitions among the lock calls l, in call order
Granted(l) == SelectSeq(l, LAMBDA e : e.op = "acquire" /\ e.ret)

\* C3 (no immediate repeat): every successful acquisition, plain grant or
\* preemption, goes to a pane other than the pane of the acquisition before
\* it, which last_landscape_slot records; an acquire by the pane recorded as
\* last holder is denied.
C3_NoImmediateRepeat ==
    [][LET granted == Granted(log')
       IN /\ \A k \in DOMAIN granted :
                granted[k].slot #
                    (IF k = 1 THEN last_landscape_slot ELSE granted[k - 1].slot)
          /\ last_landscape_slot' =
                 IF granted = << >> THEN last_landscape_slot
                 ELSE granted[Len(granted)].slot
          /\ \A k \in DOMAIN log' :
                /\ log'[k].op = "acquire"
                /\ log'[k].slot = log'[k].pre.last_landscape_slot
                => ~log'[k].ret]_vars

\* A pane was granted the lock after another pane had held it, and the pane
\* recorded as last holder was denied a free lock in portrait layout.
C3_Witness ==
    /\ \E k \in Calls("acquire") :
          /\ log[k].ret
          /\ log[k].pre.last_landscape_slot \notin {None, log[k].slot}
    /\ landscape_lock # None

\* C4 (stage monotonicity): the stage only moves None -> preview -> playing
\* -> None or preview -> None; it becomes playing only from preview and for
\* the same holder, and playing is never followed by preview.
C4_StageMonotone ==
    [][/\ landscape_lock_stage = "None"
            => landscape_lock_stage' \in {"None", "preview"}
       /\ landscape_lock_stage = "preview" /\ landscape_lock_stage' = "playing"
            => landscape_lock' = landscape_lock
       /\ landscape_lock_stage = "playing"
            => \/ landscape_lock_stage' = "None"
               \/ /\ landscape_lock_stage' = "playing"
                  /\ landscape_lock' = landscape_lock]_vars

\* An episode has gone from preview to playing: the holder took over the
\* layout once its preview was over.
C4_Witness ==
    /\ landscape_lock_stage = "playing"
    /\ landscape_lock # None
    /\ current_layout_mode = "landscape"
    /\ landscape_lock_time >= Ticks(preview_stage_duration)

\* C5 (contract of acquire): a call that returns true leaves the caller as
\* holder in preview, acquired now and recorded as last holder; a call that
\* returns false leaves holder, stage, acquisition time, last holder, last
\* preemption time and the force-release timer as they were; a call made
\* when the layout is not portrait or a transition is in progress returns
\* false.
C5_AcquireContract ==
    \A k \in Calls("acquire") :
        LET e == log[k]
        IN /\ e.ret =>
                /\ e.post.landscape_lock = e.slot
                /\ e.post.landscape_lock_stage = "preview"
                /\ e.post.landscape_lock_time = 0
                /\ e.post.last_landscape_slot = e.slot
                /\ e.post.force_release_timer =
                       [slot |-> e.slot, rem |-> Ticks(landscape_lock_timeout)]
           /\ ~e.ret =>
                /\ e.post.landscape_lock = e.pre.landscape_lock
                /\ e.post.landscape_lock_stage = e.pre.landscape_lock_stage
                /\ e.post.landscape_lock_time = e.pre.landscape_lock_time
                /\ e.post.last_landscape_slot = e.pre.last_landscape_slot
                /\ e.post.last_preemption_time = e.pre.last_preemption_time
                /\ e.post.force_release_timer = e.pre.force_release_timer
           /\ \/ e.pre.current_layout_mode # "portrait"
              \/ e.pre.transition_in_progress
              => ~e.ret

\* A pane other than the last holder asked for the lock while the layout was
\* not portrait and was denied.
C5_Witness ==
    \E k \in Calls("acquire") :
        /\ ~log[k].ret
        /\ log[k].pre.current_layout_mode # "portrait"
        /\ log[k].slot # log[k].pre.last_landscape_slot

\* The conditions of a preemption, read in the state the call e finds
Eligible(e) ==
    /\ e.slot = 0 /\ e.pre.dedicated_slot_enabled /\ e.priority
    /\ ~(e.pre.landscape_lock = 0 /\ e.pre.dedicated_slot_enabled)
    /\ e.pre.landscape_lock_stage = "preview"
    /\ Elapsed(e.pre.landscape_lock_time) < preview_stage_duration
    /\ Elapsed(e.pre.last_preemption_time) >= preemption_cooldown

\* C6 (preemption eligibility): an acquire that finds the lock held by
\* another pane succeeds exactly when the caller is the dedicated pane
\* calling with priority, the holder is not the dedicated pane, the stage is
\* preview, less than 2000 ms have passed since the holder acquired and at
\* least 5000 ms since the last preemption.
C6_PreemptionEligibility ==
    \A k \in Calls("acquire") :
        log[k].pre.landscape_lock \notin {None, log[k].slot}
            => (log[k].ret <=> Eligible(log[k]))

\* The dedicated pane preempted a holder that had acquired one tick (1000 ms)
\* before: the last tick of the preview window.
C6_Witness ==
    \E k \in Calls("acquire") :
        /\ log[k].kind = "preempt"
        /\ Elapsed(log[k].pre.landscape_lock_time) + TickMs
               = preview_stage_duration

\* C7: while the stage is playing no acquire succeeds, and the holder changes
\* to None only, never to another pane.
C7_PlayingNotPreemptible ==
    [][/\ \A k \in DOMAIN log' :
            /\ log'[k].op = "acquire"
            /\ log'[k].pre.landscape_lock_stage = "playing"
            => ~log'[k].ret
       /\ landscape_lock_stage = "playing"
            => landscape_lock' \in {landscape_lock, None}]_vars

\* A pane other than the holder asked for the lock while the stage was
\* playing.
C7_Witness ==
    \E k \in Calls("acquire") :
        /\ log[k].pre.landscape_lock_stage = "playing"
        /\ log[k].slot # log[k].pre.landscape_lock
        /\ landscape_lock_stage = "playing"

\* C8 (preemption): a preemption leaves no takeover pending for the preempted
\* pane, records the preemption time as now and makes the caller the holder
\* in preview; and the layout switches to landscape only for the pane that
\* holds the lock, by its own pending takeover that is due, with the image
\* that takeover was scheduled with.
C8_PreemptionCancelsTakeover ==
    [][/\ \A k \in DOMAIN log' :
            log'[k].kind = "preempt" =>
                LET e == log'[k]
                    preempted_slot == e.pre.landscape_lock
                IN /\ e.post.pending_landscape_tasks[preempted_slot] = NoTask
                   /\ pending_landscape_tasks'[preempted_slot] = NoTask
                   /\ e.post.last_preemption_time = 0
                   /\ e.post.landscape_lock = e.slot
                   /\ e.post.landscape_lock_stage = "preview"
       /\ current_layout_mode = "portrait" /\ current_layout_mode' = "landscape"
            => /\ landscape_lock # None
               /\ landscape_lock' = landscape_lock
               /\ landscape_source_slot_index' = landscape_lock
               /\ pending_landscape_tasks[landscape_lock].rem = 0
               /\ landscape_image' =
                      pending_landscape_tasks[landscape_lock].image_path]_vars

\* The dedicated pane preempted a pane whose takeover was pending.
C8_Witness ==
    \E k \in Calls("acquire") :
        /\ log[k].kind = "preempt"
        /\ log[k].pre.pending_landscape_tasks[log[k].pre.landscape_lock].rem > 0
        /\ pending_landscape_tasks[log[k].pre.landscape_lock] = NoTask
        /\ pending_landscape_tasks[log[k].slot].rem
               = Ticks(preview_stage_duration)

\* C9 as the specification states it: at the return of a preempting acquire
\* the preempted pane displays a portrait item, its rotation timer is active
\* and the caller is the holder.
C9_TimerRestarted ==
    \A k \in Calls("acquire") :
        log[k].kind = "preempt" =>
            LET preempted_slot == log[k].pre.landscape_lock
            IN /\ is_portrait_image(
                      log[k].post.current_image_path[preempted_slot])
               /\ log[k].post.timers[preempted_slot] # None
               /\ log[k].post.landscape_lock = log[k].slot

\* C9, amended: at the return of a preempting acquire the caller is the
\* holder in preview.  When a portrait image that no pane shows exists, the
\* preempted pane is recorded to show one, its rotation timer is stopped (not
\* restarted), and its display changes to that image unless the pane was in
\* the middle of an image transition, in which case the display keeps what it
\* had.  When no such image exists the preempted pane's image, display and
\* timer are unchanged.
C9_TimerStopped ==
    \A k \in Calls("acquire") :
        log[k].kind = "preempt" =>
            LET e == log[k]
                preempted_slot == e.pre.landscape_lock
                free == get_random_portrait_image(
                            e.pre, { e.pre.current_images[i] : i \in Panes })
            IN /\ e.post.landscape_lock = e.slot
               /\ e.post.landscape_lock_stage = "preview"
               /\ IF free # {}
                  THEN /\ e.post.current_images[preempted_slot] \in free
                       /\ e.post.timers[preempted_slot] = None
                       /\ e.post.current_image_path[preempted_slot] =
                              IF e.pre.is_transitioning[preempted_slot]
                              THEN e.pre.current_image_path[preempted_slot]
                              ELSE e.post.current_images[preempted_slot]
                  ELSE /\ e.post.current_images[preempted_slot] =
                              e.pre.current_images[preempted_slot]
                       /\ e.post.current_image_path[preempted_slot] =
                              e.pre.current_image_path[preempted_slot]
                       /\ e.post.timers[preempted_slot] =
                              e.pre.timers[preempted_slot]

\* The dedicated pane preempted a pane that now shows a portrait image and
\* whose rotation timer is not active.
C9_Witness ==
    \E k \in Calls("acquire") :
        /\ log[k].kind = "preempt"
        /\ is_portrait_image(
               log[k].post.current_image_path[log[k].pre.landscape_lock])
        /\ log[k].post.timers[log[k].pre.landscape_lock] = None
        /\ timers[log[k].pre.landscape_lock] = None

\* C10: a release whose expected holder is not the holder (no lock held
\* included) returns false and changes nothing.
C10_StaleReleaseNoOp ==
    \A k \in Calls("release") :
        log[k].slot # log[k].pre.landscape_lock
            => ~log[k].ret /\ log[k].post = log[k].pre

\* A release was called for a pane while another pane held the lock with
\* its watchdog armed and the queue not empty.
C10_Witness ==
    \E k \in Calls("release") :
        /\ log[k].slot # log[k].pre.landscape_lock
        /\ log[k].pre.landscape_lock # None
        /\ log[k].pre.force_release_timer.rem # None
        /\ log[k].pre.landscape_queue # << >>

\* C2: in every reachable state landscape_lock is None exactly when
\* landscape_lock_stage is None.
C2_HolderIffStage ==
    (landscape_lock = None) <=> (landscape_lock_stage = "None")

\* The lock was released by the handler that just ran and is free.
C2_Witness ==
    \E k \in Calls("release") :
        /\ log[k].ret
        /\ log[k].pre.landscape_lock_stage = "playing"
        /\ landscape_lock = None

\* The panes a lock call e scheduled for a queue attempt (singleShot(500))
Triggered(e) ==
    { i \in Panes : e.post.queue_trigger[i] # e.pre.queue_trigger[i] }

\* A pane that may be handed the head of the queue in state st: unpinned, not
\* the dedicated pane, not the last holder, holding and previewing nothing.
IdleForQueue(st, i) ==
    /\ ~st.is_pinned[i]
    /\ ~(i = 0 /\ st.dedicated_slot_enabled)
    /\ i # st.last_landscape_slot
    /\ st.landscape_lock # i
    /\ st.pending_landscape_tasks[i] = NoTask

\* What every successful release does to the lock: the watchdog is cancelled,
\* holder, stage and acquisition time are cleared, the queue is not touched.
Cleared(e) ==
    /\ e.post.force_release_timer = NoTimer
    /\ e.post.landscape_lock = None
    /\ e.post.landscape_lock_stage = "None"
    /\ e.post.landscape_lock_time = None
    /\ e.post.landscape_queue = e.pre.landscape_queue

\* C11 as the specification states it: a successful release clears the lock
\* and, whenever the queue is not empty, triggers exactly one pane, which is
\* idle for the queue; with an empty queue it triggers none.
C11_AlwaysTriggers ==
    \A k \in Calls("release") :
        LET e == log[k]
        IN e.ret =>
             /\ Cleared(e)
             /\ e.pre.landscape_queue # << >> =>
                    /\ Cardinality(Triggered(e)) = 1
                    /\ \A i \in Triggered(e) : IdleForQueue(e.post, i)
             /\ e.pre.landscape_queue = << >> => Triggered(e) = {}

\* C11 (amended): a successful release clears the lock; when the queue is not
\* empty and some pane is idle for the queue, exactly one pane is triggered,
\* the idle pane of lowest index, with a delay of 500 ms; when the queue is
\* empty or no pane is idle for the queue, no pane is triggered.
C11_ReleaseDrains ==
    \A k \in Calls("release") :
        LET e == log[k]
            idle == { i \in Panes : IdleForQueue(e.post, i) }
        IN e.ret =>
             /\ Cleared(e)
             /\ \A i \in Panes : e.pre.queue_trigger[i] = None
             /\ IF e.pre.landscape_queue # << >> /\ idle # {}
                THEN /\ Cardinality(Triggered(e)) = 1
                     /\ \A i \in Triggered(e) :
                          /\ i \in idle
                          /\ \A j \in idle : i <= j
                          /\ e.post.queue_trigger[i] = Ticks(trigger_delay)
                ELSE Triggered(e) = {}

\* A release found the queue not empty and triggered a pane.
C11_Witness ==
    \E k \in Calls("release") :
        /\ log[k].ret
        /\ log[k].pre.landscape_queue # << >>
        /\ log[k].pre.force_release_timer.rem # None
        /\ Triggered(log[k]) # {}
        /\ \E i \in Panes : queue_trigger[i] # None

\* Slot index selects as a normal slot (not pinned, not the dedicated slot)
SelectsFromQueue(index) ==
    /\ ~is_pinned[index]
    /\ ~(index = 0 /\ dedicated_slot_enabled /\ favorites_list # {})
    /\ landscape_queue # << >>

\* q is the beginning of r
IsPrefix(q, r) == Len(q) <= Len(r) /\ SubSeq(r, 1, Len(q)) = q

ForcedRelease ==
    /\ landscape_lock # None
    /\ landscape_lock' = None
    /\ \A k \in DOMAIN log' : ~(log'[k].op = "release" /\ log'[k].ret)

\* While a lock is held its watchdog is armed for the holder and runs out
\* 15000 ms after the acquisition; a forced release happens at an age of the
\* lock in [15000, 16000) ms and clears holder, stage, acquisition time and
\* watchdog.
ForcedAtTimeout ==
    /\ [](landscape_lock # None =>
            /\ force_release_timer.slot = landscape_lock
            /\ landscape_lock_time + force_release_timer.rem
                   = Ticks(landscape_lock_timeout))
    /\ [][ForcedRelease =>
            /\ Elapsed(landscape_lock_time) >= landscape_lock_timeout
            /\ Elapsed(landscape_lock_time)
                   < landscape_lock_timeout + lock_timeout_interval
            /\ landscape_lock_stage' = "None"
            /\ landscape_lock_time' = None
            /\ force_release_timer' = NoTimer]_vars

TakeoverValid(slot_index) ==
    /\ landscape_lock = slot_index
    /\ landscape_lock_stage = "preview"
    /\ current_image_path[slot_index]
           = pending_landscape_tasks[slot_index].image_path

\* C14: when the takeover scheduled for a pane fires, the stage becomes
\* playing and the layout becomes landscape only if the takeover is still
\* valid; when it is not, the layout is and stays portrait, the stage does not
\* become playing and, if the pane holds the lock, the lock is released by a
\* call of release for that pane.  (A takeover is never pending for a holder
\* whose stage is not preview.)
C14_TakeoverValidated ==
    /\ [](\A i \in Panes :
            pending_landscape_tasks[i] # NoTask /\ landscape_lock = i
                => landscape_lock_stage = "preview")
    /\ [][\A i \in Panes :
            TaskFires(i) =>
               /\ landscape_lock_stage' = "playing" => TakeoverValid(i)
               /\ current_layout_mode' = "landscape" => TakeoverValid(i)
               /\ pending_landscape_tasks'[i] = NoTask
               /\ ~TakeoverValid(i) =>
                    /\ current_layout_mode = "portrait"
                    /\ current_layout_mode' = "portrait"
                    /\ landscape_lock = i =>
                         /\ landscape_lock' = None
                         /\ \E k \in DOMAIN log' :
                              /\ log'[k].op = "release"
                              /\ log'[k].slot = i
                              /\ log'[k].ret
                    /\ landscape_lock # i =>
                         /\ landscape_lock' = landscape_lock
                         /\ landscape_lock_stage' = landscape_lock_stage]_vars

\* The takeover of a holder in preview fired in portrait layout with no
\* transition running, found another image displayed in the pane and released
\* the lock: the layout is portrait and the lock is free.
C14_Witness ==
    \E k \in Calls("release") :
        /\ log[k].ret
        /\ log[k].pre.landscape_lock_stage = "preview"
        /\ log[k].pre.current_layout_mode = "portrait"
        /\ ~log[k].pre.transition_in_progress
        /\ log[k].pre.current_image_path[log[k].slot]
               # log[k].pre.current_images[log[k].slot]
        /\ current_layout_mode = "portrait"
        /\ landscape_lock = None

\* C15: a takeover callback and a watchdog force-release that fire for a pane
\* that is not the holder (the lock free or held by another pane) change
\* nothing: holder, stage, acquisition time, layout mode, queue, displayed and
\* recorded images and every pane timer are as before, and so is the rest of
\* the state (the takeover callback only forgets its own task record).
C15_StaleCallbackNoOp ==
    \A k \in Calls("takeover") \cup Calls("force_release") :
        LET e == log[k]
        IN e.slot # e.pre.landscape_lock =>
             /\ e.post.landscape_lock = e.pre.landscape_lock
             /\ e.post.landscape_lock_stage = e.pre.landscape_lock_stage
             /\ e.post.landscape_lock_time = e.pre.landscape_lock_time
             /\ e.post.current_layout_mode = e.pre.current_layout_mode
             /\ e.post.landscape_queue = e.pre.landscape_queue
             /\ e.post.current_image_path = e.pre.current_image_path
             /\ e.post.current_images = e.pre.current_images
             /\ e.post.timers = e.pre.timers
             /\ e.post = [e.pre EXCEPT
                            !.pending_landscape_tasks[e.slot] =
                                IF e.op = "takeover" THEN NoTask ELSE @]

\* A takeover callback fired for a pane while another pane held the lock in
\* preview, in portrait layout with no transition running.
C15_Witness ==
    \E k \in Calls("takeover") :
        /\ log[k].pre.landscape_lock \notin {None, log[k].slot}
        /\ log[k].pre.landscape_lock_stage = "preview"
        /\ log[k].pre.current_layout_mode = "portrait"
        /\ ~log[k].pre.transition_in_progress
        /\ log[k].post.landscape_lock = log[k].pre.landscape_lock

\* A step in which the layout goes from portrait to landscape: a takeover
Takeover ==
    /\ current_layout_mode = "portrait"
    /\ current_layout_mode' = "landscape"

\* C16: a takeover saves one timer state per pane (index, remaining time of at
\* least 1000 ms, whether the timer was active, the pane's image) and stops
\* every pane timer; in every reachable state whose layout is landscape no
\* pane timer is active.
C16_InterludeTimersStopped ==
    /\ [][Takeover =>
            /\ Len(portrait_timer_states') = NumPanes
            /\ \A i \in Panes :
                 /\ portrait_timer_states'[i + 1].index = i
                 /\ portrait_timer_states'[i + 1].was_active
                        = (timers[i] # None)
                 /\ portrait_timer_states'[i + 1].current_image
                        = current_images[i]
                 /\ timers'[i] = None]_vars
    /\ [](current_layout_mode = "landscape" =>
             \A i \in Panes : timers[i] = None)

\* The remaining time, in ms, that a takeover saves for a pane timer that has
\* x ticks left (None: not active)
SavedRemaining(x) == Max(IF x = None THEN 0 ELSE x * TickMs, min_remaining)

\* What every takeover -> revert cycle does with the snapshot: the takeover
\* saves max(remaining, 1000) for every pane; the revert finds one entry per
\* pane and leaves the snapshot empty.
SnapshotConsumed ==
    /\ Takeover =>
          /\ Len(portrait_timer_states') = NumPanes
          /\ \A i \in Panes :
               portrait_timer_states'[i + 1].remaining
                   = SavedRemaining(timers[i])
    /\ FinalizePortraitTransition =>
          /\ Len(portrait_timer_states) = NumPanes
          /\ portrait_timer_states' = << >>

\* C17 as the specification states it: after a takeover -> revert cycle every
\* pane's timer is resumed with max(savedRemaining, 1000) ms and the snapshot
\* is empty.
C17_EveryTimerResumed ==
    [][ /\ SnapshotConsumed
        /\ FinalizePortraitTransition =>
              \A i \in Panes :
                 timers'[i] = Ticks(Max(portrait_timer_states[i + 1].remaining,
                                        min_remaining))
      ]_vars

\* C17 (amended): after a takeover -> revert cycle the timer of every pane
\* that was active at the takeover and did not trigger it is resumed with
\* max(savedRemaining, 1000) ms; the timer of a pane that was not active at
\* the takeover, and the timer of the pane that triggered it, are started with
\* a fresh random portrait interval instead; the snapshot is empty.
C17_TimerRestoration ==
    [][ /\ SnapshotConsumed
        /\ FinalizePortraitTransition =>
              \A i \in Panes :
                 IF /\ portrait_timer_states[i + 1].was_active
                    /\ i # landscape_source_slot_index
                 THEN timers'[i] =
                          Ticks(Max(portrait_timer_states[i + 1].remaining,
                                    min_remaining))
                 ELSE timers'[i] \in PortraitIntervals
      ]_vars

\* A revert just ended (it released the lock): the snapshot is empty and a pane
\* other than the one that triggered the takeover runs on less than a fresh
\* interval, the time it had left at the takeover.
C17_Witness ==
    \E k \in Calls("release") :
        /\ log[k].ret
        /\ log[k].pre.landscape_lock_stage = "playing"
        /\ portrait_timer_states = << >>
        /\ current_layout_mode = "portrait"
        /\ \E i \in Panes :
             /\ i # landscape_source_slot_index
             /\ timers[i] # None
             /\ timers[i] < Ticks(portrait_min_ms)

\* C18: when a revert completes, the rotation timer of every pane that is not
\* pinned is active, with at least one tick and at most a full portrait
\* interval to run.
C18_TimersActiveAfterRevert ==
    [][FinalizePortraitTransition =>
          \A i \in Panes :
             ~is_pinned'[i] =>
                /\ timers'[i] # None
                /\ timers'[i] >= Ticks(min_remaining)
                /\ timers'[i] <= Ticks(portrait_max_ms)]_vars

\* A revert just ended (it released the lock) with no pane pinned: every pane
\* timer is active, that of the pane that triggered the takeover included.
C18_Witness ==
    \E k \in Calls("release") :
        /\ log[k].ret
        /\ log[k].pre.landscape_lock_stage = "playing"
        /\ current_layout_mode = "portrait"
        /\ ~transition_in_progress
        /\ landscape_source_slot_index = log[k].slot
        /\ \A i \in Panes : ~is_pinned[i] /\ timers[i] # None

\* C19 as the specification states it: after a revert the pane that triggered
\* the takeover, when it is not pinned and the catalog holds another image,
\* displays an image other than the landscape just shown in full view, and its
\* rotation timer is active.
C19_SourceShowsAnother ==
    [][FinalizePortraitTransition =>
          LET source == landscape_source_slot_index
          IN /\ source \in Panes
             /\ ~is_pinned[source]
             /\ image_files # {landscape_image}
             => /\ current_image_path'[source] # landscape_image
                /\ timers'[source] # None]_vars

\* C20: in a revert the lock is released last.  When the revert finds the lock
\* held, the last lock call of the step is the successful release for the
\* holder, and at that call the layout is portrait, no transition is in
\* progress, the timer snapshot is empty and the reselection of the pane that
\* triggered the takeover is over (images, displays and timers are already
\* what they are after the step); the lock was held until then.  No acquire
\* made during the revert succeeds: the triggering pane does not get the lock
\* back during its own reselection.
C20_ReleasedLast ==
    [][FinalizePortraitTransition =>
          /\ \A k \in DOMAIN log' :
                log'[k].op = "acquire" => ~log'[k].ret
          /\ landscape_lock # None =>
                /\ landscape_lock' = None
                /\ log' # << >>
                /\ LET e == log'[Len(log')]
                   IN /\ e.op = "release" /\ e.ret
                      /\ e.slot = landscape_lock
                      /\ e.pre.landscape_lock = landscape_lock
                      /\ e.pre.current_layout_mode = "portrait"
                      /\ ~e.pre.transition_in_progress
                      /\ e.pre.portrait_timer_states = << >>
                      /\ e.pre.current_images = current_images'
                      /\ e.pre.current_image_path = current_image_path'
                      /\ e.pre.is_transitioning = is_transitioning'
                      /\ e.pre.timers = timers'
                /\ \A k \in DOMAIN log' :
                      k < Len(log') =>
                         /\ log'[k].op = "acquire"
                         /\ log'[k].slot = landscape_source_slot_index
                         /\ log'[k].pre.landscape_lock = landscape_lock
      ]_vars

\* A revert just ended: the pane that triggered the takeover drew a landscape
\* again during its reselection, was denied the lock it still held, and the
\* lock was released after that.
C20_Witness ==
    /\ Len(log) >= 2
    /\ log[1].op = "acquire" /\ ~log[1].ret
    /\ log[1].slot = log[1].pre.landscape_lock
    /\ log[1].pre.landscape_lock_stage = "playing"
    /\ log[Len(log)].op = "release" /\ log[Len(log)].ret
    /\ landscape_lock = None
    /\ current_layout_mode = "portrait"

\* C21: when the dwell timer fires while the exclusive view is pinned, the
\* layout stays landscape, no transition starts and the one-shot dwell timer
\* is armed again with a fresh landscape interval.  A revert starts (the
\* exclusive view begins to fade out and the dwell timer is stopped) only in
\* a firing of the dwell timer at which the exclusive view is not pinned, and
\* the layout goes from landscape to portrait only at the end of that fade.
C21_PinnedDwellRearms ==
    [][ /\ LandscapeTimerFires /\ landscape_pinned =>
              /\ current_layout_mode = "landscape"
              /\ current_layout_mode' = "landscape"
              /\ portrait_transition' = "idle"
              /\ transition_in_progress' = transition_in_progress
              /\ landscape_timer' \in LandscapeIntervals
        /\ portrait_transition = "idle" /\ portrait_transition' = "fade_out" =>
              /\ LandscapeTimerFires
              /\ ~landscape_pinned
              /\ landscape_timer' = None
        /\ current_layout_mode = "landscape" /\ current_layout_mode' = "portrait" =>
              /\ portrait_transition = "fade_out"
              /\ CompletePortraitTransition
      ]_vars

\* The exclusive view is pinned and its dwell timer has fired at least once
\* since the takeover: the age of the lock and the time left on the timer add
\* up to the preview and two dwells at least; the layout is still landscape.
C21_Witness ==
    /\ landscape_pinned
    /\ current_layout_mode = "landscape"
    /\ ~transition_in_progress
    /\ landscape_timer # None
    /\ landscape_lock_time # None
    /\ landscape_lock_time + landscape_timer
           >= Ticks(preview_stage_duration) + 2 * Ticks(landscape_min_ms)

\* C22 as the specification states it: a mode switch is refused during the
\* 3000 ms after a mode switch, so the layout mode changes only when the
\* cooldown started at the previous change (mode_switch_cooldown) has run out.
C22_ModeSwitchCooldown ==
    [][current_layout_mode' # current_layout_mode =>
          mode_switch_cooldown = None]_vars

\* The denied acquires of a step at which the queue holds queue_capacity items
\* (the head is never out of the queue then: these are fresh draws)
DeniedOnFullQueue(l) ==
    { k \in DOMAIN l :
        /\ l[k].op = "acquire" /\ ~l[k].ret
        /\ Len(l[k].pre.landscape_queue) = queue_capacity }

\* C23: the landscape queue never holds more than 5 items; a step in which a
\* drawn landscape image is denied the lock while the queue holds 5 items
\* leaves the queue as it was, the denied image is not added.
C23_QueueBounded ==
    /\ [](Len(landscape_queue) <= queue_capacity)
    /\ [][DeniedOnFullQueue(log') # {} =>
             /\ landscape_queue' = landscape_queue
             /\ \A k \in DeniedOnFullQueue(log') :
                   log'[k].post.landscape_queue = landscape_queue]_vars

\* A pane that is not the dedicated one just drew a landscape image afresh
\* while the queue held 5 items, was denied the lock and shows a portrait
\* image; the queue still holds the same 5 items.
C23_Witness ==
    \E k \in DeniedOnFullQueue(log) :
        /\ ~log[k].priority
        /\ is_landscape_image(log[k].pre.current_images[log[k].slot])
        /\ log[k].pre.landscape_queue = landscape_queue
        /\ Len(landscape_queue) = queue_capacity
        /\ is_portrait_image(current_images[log[k].slot])

\* C24: a selection for a pinned pane changes nothing but that pane's timer,
\* which it restarts with a fresh portrait interval.  When the timer of a
\* pinned pane fires, every attribute of the program but that timer is after
\* the step what it was before (recorded and displayed images, lock, stage,
\* queue, pending takeovers, the other panes' timers) and no acquire is made;
\* the same holds of every selection that finds its pane pinned, whichever
\* handler makes it.
C24_PinnedSelectKeepsAll ==
    [][ /\ \A i \in Panes :
             TimerFires(i) /\ is_pinned[i] =>
                /\ \E iv \in PortraitIntervals :
                      Self' = [Self EXCEPT !.timers[i] = iv]
                /\ Calls("acquire")' = {}
                /\ Calls("select")' # {}
        /\ \A k \in Calls("select")' :
             /\ log'[k].pre.is_pinned[log'[k].slot]
             /\ \E iv \in PortraitIntervals :
                   log'[k].post =
                       [log'[k].pre EXCEPT !.timers[log'[k].slot] = iv]
      ]_vars

\* The timer of a pinned pane has just fired while another pane was
\* previewing a landscape image under the lock: the pinned pane's timer runs
\* again, the lock, the pending takeover and the queue are as they were.
C24_Witness ==
    \E k \in Calls("select") :
        LET i == log[k].slot
        IN /\ log[k].pre.timers[i] = 0
           /\ is_pinned[i]
           /\ timers[i] \in PortraitIntervals
           /\ landscape_lock \in Panes \ {i}
           /\ landscape_lock_stage = "preview"
           /\ pending_landscape_tasks[landscape_lock] # NoTask
           /\ current_image_path = log[k].pre.current_image_path

\* The successful acquires of a step
GrantedCalls(l) == { k \in DOMAIN l : l[k].op = "acquire" /\ l[k].ret }

\* C25 as the specification states it: when a handler is granted the lock for
\* a pane (a selection from a fresh draw or from the queue, or the initial
\* display at startup), then after the handler the pane's item is a landscape
\* image and the pane displays it, the layout is still portrait, the pane's
\* rotation timer is stopped and the takeover of that pane with that item is
\* pending, 2000 ms ahead.
C25_GrantStartsPreview ==
    [][\A k \in GrantedCalls(log') :
          LET i == log'[k].slot
          IN landscape_lock' = i =>
                /\ is_landscape_image(current_images'[i])
                /\ current_image_path'[i] = current_images'[i]
                /\ current_layout_mode' = "portrait"
                /\ timers'[i] = None
                /\ pending_landscape_tasks'[i] =
                       [image_path |-> current_images'[i],
                        rem |-> Ticks(preview_stage_duration)]
      ]_vars

\* A step made by a handler that selects the next image of a pane
\* (change_single_image): a pane timer, the enabling of the dedicated pane
\* (by the user or by load_favorites), the end of a revert
Selects ==
    \/ \E i \in Panes : TimerFires(i)
    \/ EnableDedicated
    \/ LoadFavorites
    \/ FinalizePortraitTransition

\* The acquires of such a step made for a fresh draw and denied while the
\* queue had room.  The acquire made for the head of the queue finds the
\* queue without its head; the one made for a fresh draw finds the queue as
\* it was, and the drawn image recorded as the pane's.
DeniedFreshDraws(l) ==
    { k \in DOMAIN l :
        /\ l[k].op = "acquire" /\ ~l[k].ret
        /\ l[k].pre.landscape_queue = landscape_queue
        /\ Len(landscape_queue) < queue_capacity
        /\ is_landscape_image(l[k].pre.current_images[l[k].slot]) }

\* C26 as the specification states it: whenever a selection for any pane,
\* dedicated or not, draws a fresh landscape image that is denied the lock
\* while the queue holds fewer than 5 items, the image is appended to the
\* tail of the queue.
C26_EveryDeniedDrawQueued ==
    [][Selects =>
          \A k \in DeniedFreshDraws(log') :
             landscape_queue' =
                 Append(landscape_queue,
                        log'[k].pre.current_images[log'[k].slot])]_vars

\* C26 (amended): whenever a selection for a pane other than the dedicated
\* favorites pane draws a fresh landscape image that is denied the lock while
\* the queue holds fewer than 5 items, the image is appended to the tail of
\* the queue; a landscape favorite drawn for the dedicated pane and denied is
\* not queued, the queue stays as it was.
C26_DeniedDrawQueued ==
    [][Selects =>
          \A k \in DeniedFreshDraws(log') :
             IF log'[k].priority
             THEN landscape_queue' = landscape_queue
             ELSE landscape_queue' =
                      Append(landscape_queue,
                             log'[k].pre.current_images[log'[k].slot])]_vars

\* The timer of a pane that is not dedicated just fired, the pane drew a
\* landscape image while another pane held the lock and the queue was not
\* empty: the image is now the last of the queue, behind the items that
\* were waiting.
C26_Witness ==
    \E k \in Calls("acquire") :
        /\ ~log[k].ret /\ ~log[k].priority
        /\ log[k].kind = "held"
        /\ log[k].pre.landscape_queue # << >>
        /\ Len(landscape_queue) = Len(log[k].pre.landscape_queue) + 1
        /\ landscape_queue =
               Append(log[k].pre.landscape_queue,
                      log[k].pre.current_images[log[k].slot])
        /\ is_landscape_image(log[k].pre.current_images[log[k].slot])

\* C27 as the specification states it: a pane that was denied the lock in a
\* selection or at its initial display ends up displaying a portrait image,
\* never the denied landscape image; a pane displays a landscape image in
\* place only while it holds the lock.
C27_DeniedShowsPortrait ==
    /\ [][\A k \in Calls("acquire")' :
             ~log'[k].ret =>
                is_portrait_image(current_image_path'[log'[k].slot])]_vars
    /\ [](\A i \in Panes :
             is_landscape_image(current_image_path[i]) => landscape_lock = i)

\* C28: timers are replaced, never stacked.  In every reachable state the
\* only active takeover timer of a pane is the one of its pending task, so a
\* pane has at most one, and the only active force-release timer is the one
\* the lock manager refers to, so there is at most one.  Scheduling a takeover
\* for a pane, in any reachable state, leaves the pane with one active
\* takeover timer, the new one, whether or not it had one.  Every grant leaves
\* exactly one force-release timer, armed for the new holder with the full
\* timeout, whether or not one was running before; a preemption leaves the
\* preempted pane without a pending takeover.
C28_TimersNeverStacked ==
    /\ \A i \in Panes :
          /\ active_takeover_timers[i] <= 1
          /\ active_takeover_timers[i] =
                 IF pending_landscape_tasks[i].rem # None THEN 1 ELSE 0
    /\ active_watchdog_timers <= 1
    /\ active_watchdog_timers =
           IF force_release_timer.rem # None THEN 1 ELSE 0
    /\ \A i \in Panes, img \in Images :
          LET s1 == schedule_landscape_switch(Self, i, img)
          IN /\ s1.active_takeover_timers =
                    [active_takeover_timers EXCEPT ![i] = 1]
             /\ s1.pending_landscape_tasks =
                    [pending_landscape_tasks EXCEPT
                       ![i] = [image_path |-> img,
                               rem |-> Ticks(preview_stage_duration)]]
    /\ \A k \in GrantedCalls(log) :
          LET e == log[k]
          IN /\ e.post.active_watchdog_timers = 1
             /\ e.post.force_release_timer =
                    [slot |-> e.slot, rem |-> Ticks(landscape_lock_timeout)]
             /\ e.kind = "preempt" =>
                   LET preempted_slot == e.pre.landscape_lock
                   IN /\ e.post.pending_landscape_tasks[preempted_slot] = NoTask
                      /\ e.post.active_takeover_timers[preempted_slot] = 0

\* The dedicated pane has just preempted a pane whose takeover was pending
\* and whose force-release timer was running: one force-release timer is
\* active, armed for the new holder, and the only active takeover timer is
\* the one of the new holder.
C28_Witness ==
    \E k \in GrantedCalls(log) :
        LET e == log[k]
            preempted_slot == e.pre.landscape_lock
        IN /\ e.kind = "preempt"
           /\ e.pre.force_release_timer.rem # None
           /\ e.pre.force_release_timer.slot = preempted_slot
           /\ e.pre.pending_landscape_tasks[preempted_slot].rem # None
           /\ landscape_lock = e.slot
           /\ force_release_timer.slot = e.slot
           /\ active_watchdog_timers = 1
           /\ active_takeover_timers[preempted_slot] = 0
           /\ active_takeover_timers[e.slot] = 1

\* A revert that ends a cycle with no preemption and no timeout: the lock is
\* still held by the pane that triggered the takeover.
RevertEnds ==
    /\ FinalizePortraitTransition
    /\ landscape_lock # None
    /\ landscape_lock = landscape_source_slot_index

\* C29 as the specification states it: across a takeover -> revert cycle with
\* no preemption and no timeout, every pane other than the one that triggered
\* the takeover displays after the revert the image it displayed at the
\* takeover, and its pinned flag is what it was.
C29_LayoutRestored ==
    [][RevertEnds =>
          \A i \in Panes \ {landscape_source_slot_index} :
             /\ current_image_path'[i] = takeover_view[i + 1].path
             /\ is_pinned'[i] = takeover_view[i + 1].pinned]_vars

\* A step of a cycle: the takeover, what happens while the layout is
\* landscape, the fades of the revert and its end.
InCycle ==
    \/ Takeover
    \/ current_layout_mode = "landscape"
    \/ portrait_transition # "idle"

\* C29 (amended): during a takeover -> revert cycle the image displayed by a
\* pane other than the one that triggered the takeover changes only when the
\* user enables the dedicated favorites pane (pane 0 is reselected at once)
\* or when the timer of pane 0, which that reselection restarted, fires
\* behind the exclusive view; its pinned flag changes only when the user
\* toggles it.  The takeover, the dwell timer, the fades and the end of the
\* revert change neither: when the user has not acted at all, the cycle ends
\* with every other pane displaying the image it displayed at the takeover,
\* pinned as it was.
C29_OthersKeptByTheCycle ==
    [][ /\ InCycle =>
              \A i \in Panes \ {landscape_source_slot_index'} :
                 /\ current_image_path'[i] # current_image_path[i] =>
                       /\ i = 0
                       /\ EnableDedicated \/ TimerFires(i)
                 /\ is_pinned'[i] # is_pinned[i] => TogglePin(i)
        /\ Takeover =>
              \A i \in Panes :
                 /\ takeover_view'[i + 1].path = current_image_path[i]
                 /\ takeover_view'[i + 1].pinned = is_pinned[i]
        /\ RevertEnds /\ clicks = 0 =>
              \A i \in Panes \ {landscape_source_slot_index} :
                 /\ current_image_path'[i] = takeover_view[i + 1].path
                 /\ is_pinned'[i] = takeover_view[i + 1].pinned
      ]_vars

\* A cycle has just ended with no preemption and no timeout (the revert
\* released the lock of the pane that triggered the takeover) and the user
\* has not acted: another pane, whose timer was restored, displays the
\* portrait image it displayed at the takeover.
C29_Witness ==
    \E k \in Calls("release") :
        /\ log[k].ret
        /\ log[k].pre.landscape_lock_stage = "playing"
        /\ log[k].slot = landscape_source_slot_index
        /\ log[k].pre.takeover_view # << >>
        /\ current_layout_mode = "portrait"
        /\ clicks = 0
        /\ \E i \in Panes \ {landscape_source_slot_index} :
             /\ current_image_path[i] = log[k].pre.takeover_view[i + 1].path
             /\ is_portrait_image(current_image_path[i])
             /\ timers[i] # None


\* C30: the reentrancy guard of acquire_landscape_lock is false whenever no
\* call of it is executing: between two handlers, at every call of it and at
\* its return, whichever way it returns (denied on the basic conditions,
\* granted, granted by preemption, denied because the lock is held), and at
\* every release, takeover callback and forced release.  Hence no call of
\* acquire_landscape_lock is ever turned away by the guard.
C30_GuardCleared ==
    /\ ~acquiring_lock
    /\ \A k \in DOMAIN log :
          /\ ~log[k].pre.acquiring_lock
          /\ ~log[k].post.acquiring_lock
    /\ \A k \in Calls("acquire") :
          log[k].kind \in {"basic", "grant", "preempt", "held"}

\* A call of acquire_landscape_lock that follows a denied and a granted one
\* and is not turned away: it finds an item in the queue (only a denied call
\* puts one there) and a last holder (only a granted call, since released,
\* leaves one), it is granted, and the guard is false when it returns.
C30_Witness ==
    \E k \in Calls("acquire") :
        /\ log[k].kind = "grant"
        /\ log[k].pre.landscape_queue # << >>
        /\ log[k].pre.last_landscape_slot # None
        /\ ~log[k].post.acquiring_lock
        /\ landscape_lock = log[k].slot
        /\ ~acquiring_lock


\* A catalog of one image, a landscape one: once every slot shows it no
\* candidate is left for any slot.
image_files_single == {NumPortrait + 1}
\* The program over either catalog.
InitAnyCatalog == Init \/ Constructed(image_files_single)
SpecAnyCatalog == InitAnyCatalog /\ [][Next]_vars

\* The outcomes of change_single_image(index) in which the call did not grant
\* the lock to the slot.
NotGranted(S, index) ==
    { post \in S :
        ~\E k \in DOMAIN post.log :
            /\ post.log[k].op = "acquire"
            /\ post.log[k].slot = index
            /\ post.log[k].ret }

\* C31: every call of change_single_image that does not grant the lock to its
\* slot leaves the timer of the slot active with a fresh interval: in every
\* reachable state every such outcome of the call has it, and every firing of
\* a slot timer that does not grant the lock to the slot ends with it.  When
\* no candidate is left the images on display are unchanged as well.
C31_TimerRestarted ==
    /\ [](\A index \in Panes :
            \A post \in NotGranted(change_single_image(Strip(Self), index),
                                   index) :
               /\ post.timers[index] \in PortraitIntervals
               /\ Available(Self, index, image_files) = {}
                  /\ ~(index = 0 /\ dedicated_slot_enabled) =>
                     /\ post.current_images = current_images
                     /\ post.current_image_path = current_image_path)
    /\ [][\A index \in Panes :
            /\ TimerFires(index)
            /\ ~\E k \in Calls("acquire")' :
                   log'[k].slot = index /\ log'[k].ret
            => timers'[index] \in PortraitIntervals]_vars

\* A call of change_single_image for an unpinned slot found no candidate (the
\* catalog holds one image and every slot shows it): the images on display
\* are as they were and the timer of the slot runs with a fresh interval.
C31_Witness ==
    \E k \in Calls("no_candidate") :
        LET index == log[k].slot
        IN /\ ~log[k].pre.is_pinned[index]
           /\ \A i \in Panes : log[k].pre.current_images[i] \in image_files
           /\ log[k].post.current_image_path = log[k].pre.current_image_path
           /\ log[k].post.timers[index] \in PortraitIntervals
           /\ timers[index] \in PortraitIntervals
           /\ Calls("acquire") = {}
           /\ landscape_lock # index


\* C32: whenever the layout is landscape the lock is held and its stage is
\* "playing": the exclusive view never outlives its lock.
C32_LandscapeHoldsLock ==
    current_layout_mode = "landscape" =>
       /\ landscape_lock # None
       /\ landscape_lock_stage = "playing"


\* In state s a takeover is pending for a slot only while the slot holds the
\* lock in the "preview" stage.
PendingOnlyInPreview(s) ==
    \A p \in Panes :
       s.pending_landscape_tasks[p].rem # None =>
          /\ s.landscape_lock = p
          /\ s.landscape_lock_stage = "preview"
          /\ s.active_takeover_timers[p] = 1

\* C33: a takeover is pending for a slot only while the slot holds the lock
\* in the "preview" stage, and one timer then stands for it: in every
\* reachable state, and at the return of every acquire (preemption
\* included), release, forced release and takeover callback.
C33_PendingOnlyInPreview ==
    /\ PendingOnlyInPreview(Self)
    /\ \A k \in DOMAIN log :
          log[k].op \in {"acquire", "release", "force_release", "takeover"}
             => PendingOnlyInPreview(log[k].post)

\* A takeover callback has fired for the holder in "preview", whose takeover
\* was pending; the lock is now "playing" and nothing is pending.
C33_Witness ==
    \E k \in Calls("takeover") :
        LET p == log[k].slot
        IN /\ log[k].pre.pending_landscape_tasks[p].rem # None
           /\ log[k].pre.landscape_lock = p
           /\ log[k].pre.landscape_lock_stage = "preview"
           /\ landscape_lock = p
           /\ landscape_lock_stage = "playing"
           /\ \A q \in Panes : pending_landscape_tasks[q].rem = None


\* C34: while a slot holds the lock in the "preview" stage its timer is
\* inactive, and no step other than the end of the preview changes the image
\* the slot displays.
C34_PreviewHolderTimerStopped ==
    /\ [](landscape_lock_stage = "preview" => timers[landscape_lock] = None)
    /\ [][ /\ landscape_lock_stage = "preview"
           /\ landscape_lock_stage' = "preview"
           /\ landscape_lock' = landscape_lock
           => current_image_path'[landscape_lock] =
                 current_image_path[landscape_lock] ]_vars


\* The Qt event loop: a timer that is due, an animation that has finished and
\* a deferred call are each dispatched in the end, and time passes when
\* nothing is due.  The user is not obliged to do anything.
EventLoopFairness ==
    /\ WF_vars(Start)
    /\ WF_vars(LoadFavorites)
    /\ WF_vars(StartDeferred)
    /\ \A i \in Panes : WF_vars(TimerFires(i))
    /\ \A i \in Panes : WF_vars(TaskFires(i))
    /\ WF_vars(WatchdogFires)
    /\ WF_vars(CheckTimeout)
    /\ WF_vars(LandscapeTimerFires)
    /\ \A i \in Panes : WF_vars(TransitionComplete(i))
    /\ \A i \in Panes : WF_vars(QueueTrigger(i))
    /\ WF_vars(CompletePortraitTransition)
    /\ WF_vars(FinalizePortraitTransition)
    /\ WF_vars(Tick)

SpecLive == Init /\ [][Next]_vars /\ EventLoopFairness

\* C35: every granted lock is released in the end: a state in which the lock
\* is held leads to a state in which it is free, also when the exclusive
\* view stays pinned or the slideshow stays paused.
C35_LockEventuallyReleased ==
    (landscape_lock # None) ~> (landscape_lock = None)

\* The watchdog has released the lock of a holder whose exclusive view the
\* user keeps paused or pinned.
C35_Witness ==
    \E k \in Calls("force_release") :
        /\ log[k].ret
        /\ log[k].pre.landscape_lock = log[k].slot
        /\ log[k].pre.landscape_lock_stage = "playing"
        /\ log[k].pre.current_layout_mode = "landscape"
        /\ is_paused \/ landscape_pinned
        /\ landscape_lock = None


\* A click on the exclusive view that pins it (a second user action next to
\* the one the budget of clicks allows).
PinLandscape ==
    /\ startup = "running" /\ current_layout_mode = "landscape"
    /\ ~landscape_pinned
    /\ Undo({toggle_pin_landscape(Self)})

\* The program with a user who only pins and unpins the exclusive view and
\* pauses and resumes the slideshow.
NextExclusiveView ==
    \/ Start
    \/ LoadFavorites
    \/ StartDeferred
    \/ \E i \in Panes : TimerFires(i)
    \/ \E i \in Panes : TaskFires(i)
    \/ WatchdogFires
    \/ CheckTimeout
    \/ LandscapeTimerFires
    \/ \E i \in Panes : TransitionComplete(i)
    \/ \E i \in Panes : QueueTrigger(i)
    \/ CompletePortraitTransition
    \/ FinalizePortraitTransition
    \/ PinLandscape
    \/ TogglePinLandscape
    \/ Pause
    \/ Resume
    \/ Tick

SpecExclusiveView ==
    Init /\ [][NextExclusiveView]_vars /\ EventLoopFairness

\* C36 as the specification states it: every exclusive view ends.  When from
\* some time on the exclusive view is not pinned and the slideshow is not
\* paused, a state with landscape layout leads to portrait layout with no
\* transition in progress.
C36_InterludeEnds ==
    <>[](~landscape_pinned /\ ~is_paused) =>
       ((current_layout_mode = "landscape") ~>
           (current_layout_mode = "portrait" /\ ~transition_in_progress))


\* C37 as the specification states it: no slot is frozen for good.  When from
\* some time on a slot is not pinned, the exclusive view is not pinned and
\* the slideshow is not paused, the timer of the slot fires again and again.
C37_NoPaneFrozen ==
    \A i \in Panes :
       <>[](~is_pinned[i] /\ ~landscape_pinned /\ ~is_paused) =>
          []<><<TimerFires(i)>>_vars


\* C38 as the specification states it: no queued image waits for ever.  When
\* some slot is from some time on neither pinned nor the dedicated slot and
\* its timer fires again and again, a full queue, to which nothing can be
\* added, loses an image in the end.
C38_QueueDrains ==
    (\E i \in Panes :
        /\ <>[](~is_pinned[i] /\ ~(i = 0 /\ dedicated_slot_enabled))
        /\ []<><<TimerFires(i)>>_vars)
    => ((Len(landscape_queue) = queue_capacity) ~>
           (Len(landscape_queue) < queue_capacity))


\* C39 as the specification states it: while the slideshow is paused nothing
\* rotates.  Once the deferred start() has run, in a step that starts and
\* ends paused no slot changes the image it displays, the layout does not
\* change, and no slot timer and no dwell timer of the exclusive view becomes
\* active.
C39_PausedNothingRotates ==
    [][is_paused /\ is_paused' /\ start_pending = None =>
          /\ current_image_path' = current_image_path
          /\ current_layout_mode' = current_layout_mode
          /\ \A i \in Panes : timers[i] = None => timers'[i] = None
          /\ landscape_timer = None => landscape_timer' = None]_vars

=============================================================================
